---- MODULE Spec2Model ----
(***************************************************************************)
(* A model of Dee (src/Dee.py) and its Database (src/DeeDatabase.py).      *)
(*                                                                         *)
(* Representation.                                                         *)
(*  - A Tuple (a Python dict) is a function from attribute names to        *)
(*    values.  A body row is a sequence of values in heading order;        *)
(*    dictToTuple and TupleOf convert between the two.                     *)
(*  - A Relation is a record: heading (the _heading tuple), body (the      *)
(*    _body list), inv (the _headingInvert index), cdefs (the              *)
(*    constraint_definitions, in dict order), cons (the names bound in     *)
(*    the constraints dict, in dict order), scope (what the bound          *)
(*    closures resolve names in) and fn (the name of the body function of  *)
(*    a computed relation, "" when the body is a list).                    *)
(*  - Row positions are 1-based here and 0-based in the source.            *)
(*  - An index entry left holding the empty set is read by every user as   *)
(*    a missing entry (get(v, set()) at Dee.py 562-575 and 676-679, the    *)
(*    test at 444 that then adds, the guard at 513), so the model drops    *)
(*    it.                                                                  *)
(*  - tuple(set) has no defined order in Python; the model orders a        *)
(*    heading built from a set by AttrOrder.                               *)
(*  - All values drawn for rows are integers, so the isinstance test at    *)
(*    Dee.py 409-434 always passes and is not modelled.  myhash is not     *)
(*    modelled: nothing the model reads depends on it.                     *)
(*  - A namespace of the Database (one entry of transactions) is a record *)
(*    of its keys in insertion order and the relation under each key; the  *)
(*    Database is a record of transactions, transactionId and _readonly.   *)
(*    Relvars are created in methods of the Database, where binding of     *)
(*    their constraints is deferred to _postLoad.                          *)
(*  - An operator that the source computes once and reads several times    *)
(*    is split into operators that take the computed value as a            *)
(*    parameter (addToBody, addChecked, addOutcome).                       *)
(***************************************************************************)
EXTENDS Integers, Sequences, FiniteSets, TLC

\* ------------------------------------------------------------------ bounds
\* Key values are 1..MaxVal.
MaxVal == 3
\* An insert is only tried when the body stays within MaxRows rows.
MaxRows == 3
\* A batch holds at most MaxBatch rows.
MaxBatch == 2
\* The constructor is given a list of at most MaxList rows.
MaxList == 2

\* Operands of the algebra: attribute values 1..MaxAlgVal, at most MaxAlgRows rows
MaxAlgVal == 2

MaxAlgRows == 2

\* A heading given to the constructor has at most MaxHeading names
MaxHeading == 2

\* QUOTA is asked for at most MaxLimit rows
MaxLimit == 3

\* ------------------------------------------------------------- sequences
Range(s) == {s[i] : i \in DOMAIN s}

RECURSIVE SeqsOver(_, _)
\* The sequences of at most n distinct elements of S.
SeqsOver(S, n) ==
    IF n = 0 THEN {<<>>}
    ELSE LET shorter == SeqsOver(S, n - 1)
         IN shorter \cup UNION {{Append(p, x) : x \in S \ Range(p)} :
                                  p \in {q \in shorter : Len(q) = n - 1}}

\* The lists of at most n elements of S, repeats included
ListsOver(S, n) == UNION {[1..k -> S] : k \in 0..n}

RemoveAt(s, i) == [j \in 1..(Len(s) - 1) |-> IF j < i THEN s[j] ELSE s[j + 1]]

Min(S) == CHOOSE x \in S : \A y \in S : x <= y

Max(S) == CHOOSE x \in S : \A y \in S : x >= y

RECURSIVE SetToSortedSeq(_)
SetToSortedSeq(S) ==
    IF S = {} THEN <<>> ELSE <<Min(S)>> \o SetToSortedSeq(S \ {Min(S)})

\* ------------------------------------------------------------ attributes
\* Every attribute name the model uses, in the order the model gives a
\* heading built from a set.
AttrOrder == <<"a", "b", "_OLD_a", "_OLD_b", "k", "S#", "CITY", "P#", "relation_name",
               "attribute_name", "constraint_name", "constraint_type", "QTY", "_Z", "x", "D", "_OLD_D", "">>

IndexOf(s, x) == CHOOSE i \in 1..Len(s) : s[i] = x

\* tuple(<a set of attribute names>)
HeadingOfSet(S) == SelectSeq(AttrOrder, LAMBDA x : x \in S)

dictToTuple(heading, d) == [i \in 1..Len(heading) |-> d[heading[i]]]

\* Tuple(list(zip(heading, row)))
TupleOf(heading, row) == [x \in Range(heading) |-> row[IndexOf(heading, x)]]

\* An attribute name that is no string: the integer 1 in a heading
NonString == "<1>"

\* isinstance(s, str)
IsString(s) == s # NonString

\* validateHeading: no exception is raised
validateHeading(heading) ==
    /\ Cardinality(Range(heading)) = Len(heading)
    /\ \A i \in 1..Len(heading) : IsString(heading[i])

\* ------------------------------------------------- constraint declarations
\* A constraint parameter p of (kind, p): an attribute list or None for a key,
\* (referenced name, mapping) for a foreign key, a function for a predicate.
\* One record shape carries the three.
NoParam == [none |-> FALSE, attrs |-> <<>>, ref |-> "", map |-> <<>>, pred |-> ""]

\* {name: (Key, attrs)}
KeyDef(name, attrs) ==
    [name |-> name, kind |-> "constraintFromCandidateKeyFactory",
     p |-> [NoParam EXCEPT !.attrs = attrs]]

\* {name: (Key, None)}
KeyNone(name) ==
    [name |-> name, kind |-> "constraintFromCandidateKeyFactory",
     p |-> [NoParam EXCEPT !.none = TRUE]]

\* {name: (ForeignKey, (ref, map))}; map is the dict's items, in dict order
ForeignKeyDef(name, ref, map) ==
    [name |-> name, kind |-> "constraintFromForeignKeyFactory",
     p |-> [NoParam EXCEPT !.ref = ref, !.map = map]]

\* {name: (Constraint, f)}; pred names the function f
ConstraintDef(name, pred) ==
    [name |-> name, kind |-> "constraintFromLambdaFactory",
     p |-> [NoParam EXCEPT !.pred = pred]]

\* The default argument of Relation.__init__
DefaultConstraints == <<KeyNone("PK")>>

Names(cdefs) == [i \in 1..Len(cdefs) |-> cdefs[i].name]

\* --------------------------------------------------------- relation core
\* _headingInvert[attr].get(v, set())
IdxGet(inv, attr, v) == IF v \in DOMAIN inv[attr] THEN inv[attr][v] ELSE {}

\* _headingInvert[attr][v] = set([ri]) or .add(ri)
IdxAdd(idx, v, ri) ==
    [w \in DOMAIN idx \cup {v} |->
        IF w = v THEN (IF v \in DOMAIN idx THEN idx[v] ELSE {}) \cup {ri} ELSE idx[w]]

\* One entry's positions after row ri is deleted.
ShiftSet(riv, ri) ==
    IF riv # {} /\ Max(riv) >= ri
    THEN {ori \in riv : ori < ri} \cup {cri - 1 : cri \in {d \in riv : d > ri}}
    ELSE riv

Prune(idx) == [w \in {u \in DOMAIN idx : idx[u] # {}} |-> idx[w]]

\* A delete that drops the position of the row and moves no other
IdxDrop(idx, ri) == Prune([w \in DOMAIN idx |-> idx[w] \ {ri}])

\* The shift of one attribute's entries when row ri is deleted.
IdxShift(idx, ri) == Prune([w \in DOMAIN idx |-> ShiftSet(idx[w], ri)])

\* A relation with the heading set and an empty list body.
EmptyRelation(heading, cdefs, cons, scope) ==
    [heading |-> heading, body |-> <<>>,
     inv |-> [x \in Range(heading) |-> <<>>],
     cdefs |-> cdefs, cons |-> cons, scope |-> scope, fn |-> "",
     cond |-> [kind |-> "", attr |-> "", val |-> 0]]

\* callable(self._body)
IsComputed(rel) == rel.fn # ""

\* The body is a function of one argument, the tuple to match: not a view
IsFunction(rel) == rel.fn = "function"

\* "Optimise the order", the same in AND, OR and MINUS: the operands are
\* exchanged when r1 is computed and r2 is not, and when r1 is a function of one
\* argument and r2 a view
Exchanged(r1, r2) ==
    /\ IsComputed(r1)
    /\ \/ ~IsComputed(r2)
       \/ IsFunction(r1) /\ ~IsFunction(r2)

\* The intersection of the index sets looked up
Inter(sets) == {q \in UNION sets : \A st \in sets : q \in st}

hashfind(rel, row) ==
    IF Len(rel.heading) = 0 /\ Len(row) = 0
    THEN (IF Len(rel.body) = 1 THEN {1} ELSE {})
    ELSE Inter({IdxGet(rel.inv, rel.heading[i], row[i]) : i \in 1..Len(rel.heading)})

\* One pass of the loop of _addToBody, for a row in heading order.
addRow(rel, row) ==
    IF hashfind(rel, row) # {} THEN rel
    ELSE [rel EXCEPT !.body = Append(rel.body, row),
                     !.inv = [x \in DOMAIN rel.inv |->
                                IdxAdd(rel.inv[x], row[IndexOf(rel.heading, x)],
                                       Len(rel.body) + 1)]]

RECURSIVE addRows(_, _)
addRows(rel, rows) ==
    IF rows = <<>> THEN rel ELSE addRows(addRow(rel, Head(rows)), Tail(rows))

\* del self._body[ri] and the shift of the index
deleteRow(rel, ri) ==
    [rel EXCEPT !.body = RemoveAt(rel.body, ri),
                !.inv = [x \in DOMAIN rel.inv |-> IdxShift(rel.inv[x], ri)]]

removeFound(rel, found) == IF found = {} THEN rel ELSE deleteRow(rel, Min(found))

\* One pass of the loop of _removeFromBody, for a row in heading order.
removeRow(rel, row) == removeFound(rel, hashfind(rel, row))

RECURSIVE removeRows(_, _)
removeRows(rel, rows) ==
    IF rows = <<>> THEN rel ELSE removeRows(removeRow(rel, Head(rows)), Tail(rows))

\* Relation(heading, rows): the default constraint {"PK": (Key, None)} is bound
\* at once and always holds, so construction cannot raise.
MkRel(heading, rows) ==
    addRows(EmptyRelation(heading, DefaultConstraints, <<"PK">>, "client"), rows)

\* The full scan of a list body, as a sequence of Tuples.
scanAll(rel) == [i \in 1..Len(rel.body) |-> TupleOf(rel.heading, rel.body[i])]

\* heading(): the set of attribute names
headingSet(rel) == Range(rel.heading)

rowsAt(rel, rows) == [i \in 1..Len(rows) |-> TupleOf(rel.heading, rel.body[rows[i]])]

\* The wrapper of relationFromCondition(f), called with a tuple that has the
\* attributes f reads: [Tuple()] where f holds, [] where it does not
matchOf(cond, probe) ==
    IF cond.kind = "true" THEN << <<>> >>
    ELSE IF cond.kind = "eq" THEN (IF probe[cond.attr] = cond.val THEN << <<>> >> ELSE <<>>)
    ELSE IF cond.kind = "le" THEN (IF probe[cond.attr] <= cond.val THEN << <<>> >> ELSE <<>>)
    ELSE IF cond.kind = "gt" THEN (IF probe[cond.attr] > cond.val THEN << <<>> >> ELSE <<>>)
    ELSE (IF probe["b"] > probe["a"] THEN << <<>> >> ELSE <<>>)

\* A scan that takes no account of the tuple it is given
scanUnmatched(rel, probeHeading, probe) == scanAll(rel)

\* _scan(relType), relType holding the one tuple probe: of a list body, the
\* positions the index gives, then the rows at them; of the body of a view, the
\* tuples it returns that agree with probe on the common attributes.
scanJoin(rel, probeHeading, probe) ==
    IF IsFunction(rel) THEN matchOf(rel.cond, probe)
    ELSE IF Range(rel.heading) \cap Range(probeHeading) = {} THEN scanAll(rel)
    ELSE IF IsComputed(rel)
    THEN SelectSeq(scanAll(rel),
                   LAMBDA tup : \A x \in Range(rel.heading) \cap Range(probeHeading) :
                                   probe[x] = tup[x])
    ELSE rowsAt(rel, SetToSortedSeq(Inter({IdxGet(rel.inv, x, probe[x]) :
                                            x \in Range(rel.heading) \cap Range(probeHeading)})))

\* The set of tuples a relation holds.
Tuples(rel) == Range(scanAll(rel))

COUNT(rel) == Len(scanAll(rel))

IS_EMPTY(rel) == COUNT(rel) = 0

RECURSIVE Concat(_)
Concat(ss) == IF ss = <<>> THEN <<>> ELSE Head(ss) \o Concat(Tail(ss))

\* tr1.update(tr2)
TupleUpdate(t1, t2) ==
    [x \in DOMAIN t1 \cup DOMAIN t2 |-> IF x \in DOMAIN t2 THEN t2[x] ELSE t1[x]]

\* The rows one tuple of the driving relation joins to
joinOne(Hs, tr1, matches) ==
    [j \in 1..Len(matches) |-> dictToTuple(Hs, TupleUpdate(tr1, matches[j]))]

joinAll(Hs, tr1s, h1, r2) ==
    [i \in 1..Len(tr1s) |-> joinOne(Hs, tr1s[i], scanJoin(r2, h1, tr1s[i]))]

\* The join loop with r1 driving (both bodies lists).
ANDdrive(r1, r2) ==
    MkRel(HeadingOfSet(headingSet(r1) \cup headingSet(r2)),
          Concat(joinAll(HeadingOfSet(headingSet(r1) \cup headingSet(r2)),
                         scanAll(r1), r1.heading, r2)))

\* A join that keeps the tuples of r1 with a match in r2 as they are
ANDsemi(r1, r2) ==
    MkRel(r1.heading,
          LET kept == SelectSeq(scanAll(r1), LAMBDA t : Len(scanJoin(r2, r1.heading, t)) > 0)
          IN  [i \in 1..Len(kept) |-> dictToTuple(r1.heading, kept[i])])

AND(r1, r2) ==
    IF Exchanged(r1, r2) THEN ANDdrive(r2, r1)
    ELSE IF ~IsComputed(r2) /\ Len(r1.body) > Len(r2.body) THEN ANDdrive(r2, r1)
    ELSE ANDdrive(r1, r2)

rowsOf(heading, ts) == [i \in 1..Len(ts) |-> dictToTuple(heading, ts[i])]

\* r1 MINUS r2 as the scan computes it: the tuples of r1 for which _scan of r2
\* finds no match.
MINUSscan(r1, r2) ==
    MkRel(r1.heading,
          rowsOf(r1.heading,
                 SelectSeq(scanAll(r1), LAMBDA t : Len(scanJoin(r2, r1.heading, t)) = 0)))

\* MINUS of two relations with equal heading sets, not both functions of one
\* argument: "Optimise the order" hands a view r1 and a list r2 to MINUS(r2, r1).
MINUS(r1, r2) ==
    IF Exchanged(r1, r2) THEN MINUSscan(r2, r1) ELSE MINUSscan(r1, r2)

\* A union that leaves out the tuples of r2
ORleft(r1, r2) == MkRel(r1.heading, rowsOf(r1.heading, scanAll(r1)))

\* OR of two relations with equal heading sets, lists or views
ORscan(r1, r2) ==
    MkRel(HeadingOfSet(headingSet(r1) \cup headingSet(r2)),
          rowsOf(HeadingOfSet(headingSet(r1) \cup headingSet(r2)),
                 scanAll(r1) \o scanAll(r2)))

OR(r1, r2) ==
    IF Exchanged(r1, r2) THEN ORscan(r2, r1) ELSE ORscan(r1, r2)

\* self == rel
eq(self, rel) ==
    /\ headingSet(self) = headingSet(rel)
    /\ IS_EMPTY(MINUS(self, rel))
    /\ COUNT(self) = COUNT(rel)

\* Relation(heading, f) for f a function of no argument that returns rows: the
\* body is f, no index is built; the record holds what f returns
MkView(heading, rows) ==
    [EmptyRelation(heading, DefaultConstraints, <<"PK">>, "client") EXCEPT
        !.fn = "view", !.body = rows]

\* Relation(heading, relationFromCondition(f)): the body is a function of one
\* argument; the record holds the condition f
MkFunction(heading, cond) ==
    [EmptyRelation(heading, DefaultConstraints, <<"PK">>, "client") EXCEPT
        !.fn = "function", !.cond = cond]

\* The attributes a condition reads of the tuple it is given
AttributesRead(cond) ==
    IF cond.kind = "true" THEN {}
    ELSE IF cond.kind = "b_gt_a" THEN {"a", "b"}
    ELSE {cond.attr}

\* The attributes of the tuple _scan hands to the function f when the tuples of
\* the other operand have the attributes given: all of them when one is common,
\* none (Tuple()) when none is
AttributesGiven(f, given) == IF headingSet(f) \cap given = {} THEN {} ELSE given

RECURSIVE firstRaised(_)
firstRaised(excs) ==
    IF excs = <<>> THEN "none"
    ELSE IF Head(excs) # "none" THEN Head(excs)
    ELSE firstRaised(Tail(excs))

\* One pass of the loop of AND for the tuple tr1 of the driving operand and the
\* function f: f fails on an attribute its argument lacks; dictToTuple fails on
\* an attribute of the heading of f that tr1 lacks
joinRaises(f, tr1) ==
    IF ~(AttributesRead(f.cond) \subseteq AttributesGiven(f, DOMAIN tr1)) THEN "AttributeError"
    ELSE IF matchOf(f.cond, tr1) # <<>> /\ ~(headingSet(f) \subseteq DOMAIN tr1) THEN "KeyError"
    ELSE "none"

driveRaises(tr1s, f) == firstRaised([i \in 1..Len(tr1s) |-> joinRaises(f, tr1s[i])])

\* The exception a call of AND(r1, r2) ends with
ANDraises(r1, r2) ==
    IF IsFunction(r1) /\ IsFunction(r2) THEN "RelationInvalidOperationException"
    ELSE IF IsFunction(r1) THEN driveRaises(scanAll(r2), r1)
    ELSE IF IsFunction(r2) THEN driveRaises(scanAll(r1), r2)
    ELSE "none"

\* The exception a call of OR(r1, r2) ends with: the headings differ, or a
\* function of one argument is to be scanned
ORraises(r1, r2) ==
    IF headingSet(r1) # headingSet(r2) \/ IsFunction(r1) \/ IsFunction(r2)
    THEN "RelationInvalidOperationException"
    ELSE "none"

minusRaises(tr1s, f) ==
    IF tr1s # <<>> /\ ~(AttributesRead(f.cond) \subseteq AttributesGiven(f, headingSet(f)))
    THEN "AttributeError"
    ELSE "none"

\* The exception a call of MINUS(r1, r2) ends with
MINUSraises(r1, r2) ==
    IF headingSet(r1) # headingSet(r2) \/ (IsFunction(r1) /\ IsFunction(r2))
    THEN "RelationInvalidOperationException"
    ELSE IF IsFunction(r1) THEN minusRaises(scanAll(r2), r1)
    ELSE IF IsFunction(r2) THEN minusRaises(scanAll(r1), r2)
    ELSE "none"

\* A call and what it ends with: an exception, or the relation returned
Returned(exc, rel) == [exc |-> exc, rel |-> rel]

Raised(exc) == [exc |-> exc, rel |-> EmptyRelation(<<>>, DefaultConstraints, <<"PK">>, "client")]

ANDcall(r1, r2) ==
    IF ANDraises(r1, r2) # "none" THEN Raised(ANDraises(r1, r2))
    ELSE Returned("none", AND(r1, r2))

ORcall(r1, r2) ==
    IF ORraises(r1, r2) # "none" THEN Raised(ORraises(r1, r2))
    ELSE Returned("none", OR(r1, r2))

MINUScall(r1, r2) ==
    IF MINUSraises(r1, r2) # "none" THEN Raised(MINUSraises(r1, r2))
    ELSE Returned("none", MINUS(r1, r2))

\* AND(AND(...), r2) and AND(r1, AND(...)), the inner call having ended with x
ANDthen(x, r2) == IF x.exc # "none" THEN x ELSE ANDcall(x.rel, r2)

ANDinto(r1, x) == IF x.exc # "none" THEN x ELSE ANDcall(r1, x.rel)

\* self == rel, and the exception the call ends with
eqRaises(self, rel) ==
    IF headingSet(self) # headingSet(rel) THEN "none" ELSE MINUSraises(self, rel)

IsKey(c) == c.kind = "constraintFromCandidateKeyFactory"

\* The key constraints REMOVE carries over to the heading Hs.
keysWithin(cdefs, Hs) ==
    SelectSeq(cdefs, LAMBDA c : IsKey(c) /\ (c.p.none \/ c.p.attrs = <<>>
                                             \/ Range(c.p.attrs) \subseteq Range(Hs)))

\* res.setConstraints(constraints), the constraints bound at once
withConstraints(res, constraints) ==
    IF constraints # <<>>
    THEN [res EXCEPT !.cdefs = constraints, !.cons = Names(constraints)]
    ELSE res

REMOVEto(r, Hs) ==
    withConstraints(MkRel(Hs, rowsOf(Hs, scanAll(r))), keysWithin(r.cdefs, Hs))

REMOVE(r, Hr) == REMOVEto(r, HeadingOfSet(headingSet(r) \ Range(Hr)))

\* project(head), for head a list of attributes of r
project(r, head) == REMOVE(r, HeadingOfSet(headingSet(r) \ Range(head)))

\* ------------------------------------------------------ client functions
\* A condition on a tuple, as a client passes to where() and update():
\* lambda t: True, lambda t: t.<attr> == <val>, lambda t: t.<attr> <= <val>,
\* lambda t: t.b > t.a, lambda t: t.<attr> > <val>
CondTrue == [kind |-> "true", attr |-> "", val |-> 0]

CondEq(attr, val) == [kind |-> "eq", attr |-> attr, val |-> val]

CondLe(attr, val) == [kind |-> "le", attr |-> attr, val |-> val]

CondBgtA == [kind |-> "b_gt_a", attr |-> "", val |-> 0]

\* lambda t: t.<attr> > <val>
CondGt(attr, val) == [kind |-> "gt", attr |-> attr, val |-> val]

\* A restriction that holds of a tuple with the value of the condition too
HoldsOrEqual(cond, t) ==
    IF cond.kind = "gt" THEN t[cond.attr] >= cond.val ELSE TRUE

Holds(cond, t) ==
    IF cond.kind = "true" THEN TRUE
    ELSE IF cond.kind = "eq" THEN t[cond.attr] = cond.val
    ELSE IF cond.kind = "le" THEN t[cond.attr] <= cond.val
    ELSE IF cond.kind = "gt" THEN t[cond.attr] > cond.val
    ELSE t["b"] > t["a"]

\* RESTRICT(r, restriction) of a list body: AND drives r against the one-argument
\* relation of the condition, which yields the empty tuple where it holds.
RESTRICT(r, restriction) ==
    MkRel(HeadingOfSet(headingSet(r)),
          rowsOf(HeadingOfSet(headingSet(r)),
                 SelectSeq(scanAll(r), LAMBDA t : Holds(restriction, t))))

\* [t[x] for x in Hr]
valuesOn(t, Hr) == [i \in 1..Len(Hr) |-> t[Hr[i]]]

\* list == res, for res the integer -1 or +1: a list is never equal to an int
ListEqualsInt(list, n) == FALSE

\* The condition QUOTA counts the tuples u of r under, for the tuple t:
\* [u["_" + x] for x in Hr] == [t[x] for x in Hr] == res, a chained comparison
higherCond(u, t, Hr, res) ==
    /\ valuesOn(u, Hr) = valuesOn(t, Hr)
    /\ ListEqualsInt(valuesOn(t, Hr), res)

\* t._higher
higher(r, t, Hr, res) ==
    Len(SelectSeq(scanAll(r), LAMBDA u : higherCond(u, t, Hr, res)))

\* QUOTA(r, limit, Hr, asc) of a list body: r extended by _higher, restricted to
\* _higher < limit, _higher removed
QUOTA(r, limit, Hr, asc) ==
    IF Len(Hr) = 0 THEN Raised("RelationInvalidOperationException")
    ELSE Returned("none",
                  MkRel(HeadingOfSet(headingSet(r)),
                        rowsOf(HeadingOfSet(headingSet(r)),
                               SelectSeq(scanAll(r),
                                         LAMBDA t : higher(r, t, Hr, IF asc THEN -1 ELSE 1)
                                                      < limit))))

\* The predicate functions a client declares as (Constraint, f), and what f(r)
\* returns: a boolean, or a relation.
PredMin == 1

PredMax == 2

\* "countInRange" is lambda r: PredMin <= COUNT(r) <= PredMax;
\* "b_gt_a" is lambda r: r.where(lambda t: t.b > t.a)
PredApply(pred, r) ==
    IF pred = "countInRange"
    THEN [isRel |-> FALSE, b |-> (PredMin <= COUNT(r) /\ COUNT(r) <= PredMax), n |-> 0]
    ELSE [isRel |-> TRUE, b |-> FALSE, n |-> COUNT(RESTRICT(r, CondBgtA))]

\* The truth value "not rf()" tests of what rf() returned: a Relation has
\* __len__ (COUNT) and no __bool__.
Truthy(v) == IF v.isRel THEN v.n # 0 ELSE v.b

\* ------------------------------------------------------------ constraints
\* newnames.get(c, c); newnames is the dict's items
renamed(newnames, c) ==
    IF \E i \in 1..Len(newnames) : newnames[i][1] = c
    THEN newnames[CHOOSE i \in 1..Len(newnames) : newnames[i][1] = c][2]
    ELSE c

renamedAll(newnames, cs) == [j \in 1..Len(cs) |-> renamed(newnames, cs[j])]

\* The key constraints rename carries over
keysRenamed(cdefs, newnames) ==
    [i \in 1..Len(SelectSeq(cdefs, IsKey)) |->
        [SelectSeq(cdefs, IsKey)[i] EXCEPT
            !.p.attrs = renamedAll(newnames, SelectSeq(cdefs, IsKey)[i].p.attrs)]]

\* constraintFromCandidateKey()
keyHolds(r, p) ==
    IF p.none THEN TRUE ELSE COUNT(r) = COUNT(project(r, p.attrs))

renameChecked(r, res) ==
    IF ~validateHeading(res.heading) THEN [exc |-> "RelationException", rel |-> r]
    ELSE IF \E i \in 1..Len(res.cdefs) : ~keyHolds(res, res.cdefs[i].p)
    THEN [exc |-> "RelationConstraintException", rel |-> r]
    ELSE [exc |-> "none", rel |-> res]

\* rename(newnames) of a list body: the result is constructed with the renamed
\* key constraints, which are checked on it.
rename(r, newnames) ==
    IF \E i \in 1..Len(newnames) : newnames[i][1] \notin headingSet(r)
    THEN [exc |-> "RelationInvalidOperationException", rel |-> r]
    ELSE
    renameChecked(r, addRows(EmptyRelation(renamedAll(newnames, r.heading),
                                           keysRenamed(r.cdefs, newnames),
                                           Names(keysRenamed(r.cdefs, newnames)),
                                           "client"),
                             r.body))

\* COMPOSE(r1, r2): AND, then REMOVE of the common attributes
COMPOSE(r1, r2) == REMOVE(AND(r1, r2), HeadingOfSet(headingSet(r1) \cap headingSet(r2)))

\* COMPOSE(r, r.rename({_Y: "_Z", _X: _Y})).rename({"_Z": _Y}), or the exception
\* one of the two renames raises
extended(r, Y, rn) ==
    IF rn.exc # "none" THEN rn ELSE rename(COMPOSE(r, rn.rel), << <<"_Z", Y>> >>)

\* TTT = r | extended, for _X, _Y the two attributes as the heading set hands
\* them out
tcloseStep(r, ext) ==
    IF ext.exc # "none" THEN ext ELSE [exc |-> "none", rel |-> OR(r, ext.rel)]

TTT(r, X, Y) == tcloseStep(r, extended(r, Y, rename(r, << <<Y, "_Z">>, <<X, Y>> >>)))

RECURSIVE TCLOSE(_)
\* if TTT == r: return TTT, else: return TCLOSE(TTT)
tcloseNext(r, ttt) ==
    IF ttt.exc # "none" \/ eq(ttt.rel, r) THEN {ttt} ELSE TCLOSE(ttt.rel)

\* TCLOSE(r): every outcome, an exception or the relation returned; the order
\* in which the set r.heading() hands out _X and _Y is not fixed
TCLOSE(r) ==
    IF Len(r.heading) # 2 THEN {[exc |-> "RelationInvalidOperationException", rel |-> r]}
    ELSE tcloseNext(r, TTT(r, r.heading[1], r.heading[2]))
         \cup tcloseNext(r, TTT(r, r.heading[2], r.heading[1]))

\* rel <= self
le(rel, self) ==
    headingSet(self) = headingSet(rel) /\ IS_EMPTY(MINUS(rel, AND(rel, self)))

MapKeys(map) == [i \in 1..Len(map) |-> map[i][1]]

MapValues(map) == [i \in 1..Len(map) |-> map[i][2]]

fkCompare(rn, r2, p) ==
    IF rn.exc # "none" THEN rn.exc
    ELSE IF le(project(rn.rel, MapValues(p.map)), project(r2, MapValues(p.map)))
    THEN "pass" ELSE "RelationConstraintException"

\* constraintFromForeignKey(): "pass", or the exception the check ends in
fkHolds(r1, p, ns) ==
    IF p.ref \notin DOMAIN ns THEN "NameError"
    ELSE fkCompare(rename(project(r1, MapKeys(p.map)), p.map), ns[p.ref], p)

\* rf() and the test of it, for the bound constraint c of relation r
evalConstraint(c, r, ns) ==
    IF c.kind = "constraintFromCandidateKeyFactory"
    THEN (IF keyHolds(r, c.p) THEN "pass" ELSE "RelationConstraintException")
    ELSE IF c.kind = "constraintFromForeignKeyFactory"
    THEN fkHolds(r, c.p, ns)
    ELSE (IF Truthy(PredApply(c.p.pred, r)) THEN "pass" ELSE "RelationConstraintException")

CdefOf(r, name) == r.cdefs[CHOOSE i \in 1..Len(r.cdefs) : r.cdefs[i].name = name]

RECURSIVE checkFrom(_, _, _)
checkFrom(r, ns, i) ==
    IF i > Len(r.cons) THEN "pass"
    ELSE IF evalConstraint(CdefOf(r, r.cons[i]), r, ns) # "pass"
    THEN evalConstraint(CdefOf(r, r.cons[i]), r, ns)
    ELSE checkFrom(r, ns, i + 1)

\* The namespace a closure of the relation named self reads, that relation
\* holding x
nsWith(ns, self, x) == IF self \in DOMAIN ns THEN [ns EXCEPT ![self] = x] ELSE ns

\* _headingPK() is not None
hasHeadingPK(rel) == \E i \in 1..Len(rel.cdefs) : IsKey(rel.cdefs[i])

\* k(self, p, scope): "ok", or the exception the factory raises
bindConstraint(c, ns) ==
    IF c.kind # "constraintFromForeignKeyFactory" THEN "ok"
    ELSE IF c.p.ref \notin DOMAIN ns THEN "NameError"
    ELSE IF ~hasHeadingPK(ns[c.p.ref]) THEN "RelationException"
    ELSE "ok"

\* _checkConstraints: "pass", or the exception raised
checkConstraints(r, self, ns) == checkFrom(r, nsWith(ns, self, r), 1)

addOutcome(added, body, out) ==
    IF out = "pass" THEN [exc |-> "none", rel |-> added]
    ELSE [exc |-> out, rel |-> removeRows(added, body)]

addChecked(added, body, self, ns) ==
    addOutcome(added, body, checkConstraints(added, self, ns))

\* _addToBody(body) on the relation named self in the namespace ns its bound
\* closures read
addToBody(r, body, self, ns) == addChecked(addRows(r, body), body, self, ns)

removeOutcome(removed, body, out) ==
    IF out = "pass" THEN [exc |-> "none", rel |-> removed]
    ELSE [exc |-> out, rel |-> addRows(removed, body)]

removeChecked(removed, body, self, ns) ==
    removeOutcome(removed, body, checkConstraints(removed, self, ns))

\* _removeFromBody(body)
removeFromBody(r, body, self, ns) ==
    removeChecked(removeRows(r, body), body, self, ns)

\* The rows __ior__ and __isub__ pass on: the scan of rel, in self's order
batchRows(r, rel) == rowsOf(r.heading, scanAll(rel))

\* An insert that does not ask whether the body is a function
iorAny(r, rel, self, ns) ==
    IF headingSet(r) # headingSet(rel)
    THEN [exc |-> "RelationInvalidOperationException", rel |-> r]
    ELSE addToBody(r, batchRows(r, rel), self, ns)

\* self |= rel
ior(r, rel, self, ns) ==
    IF IsComputed(r) \/ headingSet(r) # headingSet(rel)
    THEN [exc |-> "RelationInvalidOperationException", rel |-> r]
    ELSE addToBody(r, batchRows(r, rel), self, ns)

\* self -= rel
isub(r, rel, self, ns) ==
    IF IsComputed(r) \/ headingSet(r) # headingSet(rel)
    THEN [exc |-> "RelationInvalidOperationException", rel |-> r]
    ELSE removeFromBody(r, batchRows(r, rel), self, ns)

\* ----------------------------------------------------------------- update
\* "_OLD_" + x
OldName(x) == "_OLD_" \o x

\* x.startswith("_OLD_")
startsWithOLD(x) == Len(x) >= 5 /\ SubSeq(x, 1, 5) = "_OLD_"

RECURSIVE lstripOLD(_)
\* x.lstrip("_OLD_"): the leading characters among _, O, L, D are dropped, as
\* many as there are
lstripOLD(x) ==
    IF Len(x) > 0 /\ SubSeq(x, 1, 1) \in {"_", "O", "L", "D"}
    THEN lstripOLD(SubSeq(x, 2, Len(x)))
    ELSE x

\* EXTEND(r, Hextension, extension) of a list body; the extension function
\* returns the dict ext whatever the tuple
EXTEND(r, Hextension, ext) ==
    IF headingSet(r) \cap Range(Hextension) # {}
    THEN [exc |-> "RelationInvalidOperationException", rel |-> r]
    ELSE [exc |-> "none",
          rel |-> MkRel(HeadingOfSet(headingSet(r) \cup Range(Hextension)),
                        rowsOf(HeadingOfSet(headingSet(r) \cup Range(Hextension)),
                               [i \in 1..Len(scanAll(r)) |->
                                  TupleUpdate(scanAll(r)[i], ext)]))]

\* EXTEND(r, Hextension, extension) of a list body; exts[i] is the dict the
\* extension function returns for the i-th tuple of the scan
extendEach(r, Hextension, exts) ==
    IF headingSet(r) \cap Range(Hextension) # {}
    THEN [exc |-> "RelationInvalidOperationException", rel |-> r]
    ELSE [exc |-> "none",
          rel |-> MkRel(HeadingOfSet(headingSet(r) \cup Range(Hextension)),
                        rowsOf(HeadingOfSet(headingSet(r) \cup Range(Hextension)),
                               [i \in 1..Len(scanAll(r)) |->
                                  TupleUpdate(scanAll(r)[i], exts[i])]))]

\* ------------------------------------------------- grouping and wrapping
\* Tuple.project(head)
tupleProject(t, head) == [x \in Range(head) |-> t[x]]

\* Relation.fromTuple(tr)
fromTuple(tr) ==
    MkRel(HeadingOfSet(DOMAIN tr), <<dictToTuple(HeadingOfSet(DOMAIN tr), tr)>>)

\* A relation as the value of an attribute: __eq__ and __hash__ compare it by
\* its heading and the set of its tuples
asValue(rel) == [heading |-> headingSet(rel), body |-> Tuples(rel)]

RECURSIVE SetToSeq(_)
\* The elements of a set, one after another
SetToSeq(S) ==
    IF S = {} THEN <<>>
    ELSE <<CHOOSE e \in S : TRUE>> \o SetToSeq(S \ {CHOOSE e \in S : TRUE})

\* x.project(head) and x.remove(Hr), for x what extend() left
projectOf(x, head) ==
    IF x.exc # "none" THEN x ELSE [exc |-> "none", rel |-> project(x.rel, head)]

removeOf(x, Hr) ==
    IF x.exc # "none" THEN x ELSE [exc |-> "none", rel |-> REMOVE(x.rel, Hr)]

\* {groupname: COMPOSE(r, Relation.fromTuple(t.project(Hs)))} for each t
groupExts(r, Hs, groupname) ==
    [i \in 1..Len(scanAll(r)) |->
        [n \in {groupname} |->
            asValue(COMPOSE(r, fromTuple(tupleProject(scanAll(r)[i], Hs))))]]

GROUPon(r, Hs, groupname) ==
    projectOf(extendEach(r, <<groupname>>, groupExts(r, Hs, groupname)),
              Hs \o <<groupname>>)

\* A grouping that leaves the attributes to group out of the result
GROUPdropping(r, Hr, groupname) ==
    GROUPon(MkRel(HeadingOfSet(headingSet(r) \ Range(Hr)),
                  rowsOf(HeadingOfSet(headingSet(r) \ Range(Hr)), scanAll(r))),
            HeadingOfSet(headingSet(r) \ Range(Hr)), groupname)

\* GROUP(r, Hr, groupname), Hr attributes of r
GROUP(r, Hr, groupname) ==
    GROUPon(r, HeadingOfSet(headingSet(r) \ Range(Hr)), groupname)

\* The rows of T: for s in r([groupname])._scan() for t in s[groupname]
ungroupRows(ss, groupname, Hs) ==
    Concat([i \in 1..Len(ss) |->
              [j \in 1..Cardinality(ss[i][groupname].body) |->
                  <<ss[i][groupname]>>
                  \o dictToTuple(Hs, SetToSeq(ss[i][groupname].body)[j])]])

UNGROUPwith(r, groupname, Hs) ==
    [exc |-> "none",
     rel |-> COMPOSE(r, MkRel(<<groupname>> \o Hs,
                              ungroupRows(scanAll(project(r, <<groupname>>)),
                                          groupname, Hs)))]

\* UNGROUP(r, groupname): the heading of the groups is that of the first
\* row's group, and is not bound when r has no row
UNGROUP(r, groupname) ==
    IF COUNT(r) = 0 THEN [exc |-> "UnboundLocalError", rel |-> r]
    ELSE UNGROUPwith(r, groupname, HeadingOfSet(scanAll(r)[1][groupname].heading))

\* {wrapname: t.project(Hr)} for each t
wrapExts(r, Hr, wrapname) ==
    [i \in 1..Len(scanAll(r)) |->
        [n \in {wrapname} |-> tupleProject(scanAll(r)[i], Hr)]]

\* A wrapping that keeps the first of the attributes only
WRAPfirst(r, Hr, wrapname) ==
    removeOf(extendEach(r, <<wrapname>>,
                        wrapExts(r, IF Hr = <<>> THEN Hr ELSE <<Hr[1]>>, wrapname)), Hr)

\* WRAP(r, Hr, wrapname), Hr attributes of r
WRAP(r, Hr, wrapname) ==
    removeOf(extendEach(r, <<wrapname>>, wrapExts(r, Hr, wrapname)), Hr)

\* t[wrapname].project(Hs) for each t
unwrapExts(r, wrapname, Hs) ==
    [i \in 1..Len(scanAll(r)) |-> tupleProject(scanAll(r)[i][wrapname], Hs)]

\* UNWRAP(r, wrapname): the attributes are those of the first row's tuple
UNWRAP(r, wrapname) ==
    IF COUNT(r) = 0 THEN [exc |-> "UnboundLocalError", rel |-> r]
    ELSE removeOf(extendEach(r, HeadingOfSet(DOMAIN scanAll(r)[1][wrapname]),
                             unwrapExts(r, wrapname,
                                        HeadingOfSet(DOMAIN scanAll(r)[1][wrapname]))),
                  <<wrapname>>)

\* UNGROUP(GROUP(r, Hr, "x"), "x") and UNWRAP(WRAP(r, Hr, "x"), "x")
UNGROUPof(x, groupname) == IF x.exc # "none" THEN x ELSE UNGROUP(x.rel, groupname)

UNWRAPof(x, wrapname) == IF x.exc # "none" THEN x ELSE UNWRAP(x.rel, wrapname)

\* {x: "_OLD_" + x} over the heading
toOld(heading) == [i \in 1..Len(heading) |-> <<heading[i], OldName(heading[i])>>]

\* {x: x.lstrip("_OLD_")} over the _OLD_ names of Hupdback
fromOld(Hupdback) ==
    [i \in 1..Len(SelectSeq(Hupdback, startsWithOLD)) |->
        <<SelectSeq(Hupdback, startsWithOLD)[i],
          lstripOLD(SelectSeq(Hupdback, startsWithOLD)[i])>>]

OldNames(Hsetting) == [i \in 1..Len(Hsetting) |-> OldName(Hsetting[i])]

updateBack(upd, Hsetting) ==
    rename(REMOVE(upd, OldNames(Hsetting)),
           fromOld(HeadingOfSet(headingSet(upd) \ Range(OldNames(Hsetting)))))

\* The relation new that update() computes from old
updateNew(old, heading, Hsetting, ext) ==
    updateBack(EXTEND(rename(old, toOld(heading)).rel, Hsetting, ext).rel, Hsetting)

updateInsert(d, new, self, ns) ==
    IF d.exc # "none" THEN [exc |-> d.exc, rel |-> d.rel, phase |-> "delete"]
    ELSE [exc |-> ior(d.rel, new.rel, self, ns).exc,
          rel |-> ior(d.rel, new.rel, self, ns).rel,
          phase |-> "insert"]

updateApply(r, old, new, self, ns) ==
    IF new.exc # "none" THEN [exc |-> new.exc, rel |-> r, phase |-> "new"]
    ELSE updateInsert(isub(r, old, self, ns), new, self, ns)

updateWith(r, old, Hsetting, ext, self, ns) ==
    updateApply(r, old, updateNew(old, r.heading, Hsetting, ext), self, ns)

\* update(restriction, Hsetting, setting): self -= old, then self |= new.
\* phase is the half an exception came from. where() of a function of one
\* argument is the AND of two such functions, which raises.
update(r, restriction, Hsetting, ext, self, ns) ==
    IF IsFunction(r)
    THEN [exc |-> "RelationInvalidOperationException", rel |-> r, phase |-> "where"]
    ELSE updateWith(r, RESTRICT(r, restriction), Hsetting, ext, self, ns)

\* --------------------------------------------------------------- Database
\* A namespace (one entry of Database.transactions) is a dict of relations:
\* order is its keys in insertion order, rel the relation under each key.
EmptyFrame == [order |-> <<>>, rel |-> [n \in {} |-> 0]]

\* d[name] = value
frameSet(frame, name, value) ==
    [order |-> IF name \in Range(frame.order) THEN frame.order
               ELSE Append(frame.order, name),
     rel |-> [n \in DOMAIN frame.rel \cup {name} |->
                IF n = name THEN value ELSE frame.rel[n]]]

\* del d[name]
frameDel(frame, name) ==
    [order |-> SelectSeq(frame.order, LAMBDA n : n # name),
     rel |-> [n \in DOMAIN frame.rel \ {name} |-> frame.rel[n]]]

\* The catalog relvars _vinit defines, with their headings and body functions
ViewNames == <<"relations", "attributes", "constraints", "constraint_attributes">>

ViewHeading(n) ==
    CASE n = "relations" -> <<"relation_name">>
      [] n = "attributes" -> <<"relation_name", "attribute_name">>
      [] n = "constraints" -> <<"relation_name", "constraint_name", "constraint_type">>
      [] OTHER -> <<"constraint_name", "attribute_name">>

\* Relation(heading, self.v<name>) inside _vinit: the body is the function, and
\* the default constraint is left unbound, _vinit being a frame whose self is
\* the Database
NewView(n) ==
    [EmptyRelation(ViewHeading(n), DefaultConstraints, <<>>, "") EXCEPT !.fn = "v" \o n]

\* _preDump(d): d without the relations whose body is a function
preDump(frame) ==
    [order |-> SelectSeq(frame.order, LAMBDA n : ~IsComputed(frame.rel[n])),
     rel |-> [n \in {m \in DOMAIN frame.rel : ~IsComputed(frame.rel[m])} |-> frame.rel[n]]]

\* Relation.__getstate__ then __setstate__: the pickled copy has no constraints
Pickled(rel) == [rel EXCEPT !.cons = <<>>, !.scope = ""]

PickledFrame(frame) ==
    [order |-> frame.order, rel |-> [n \in DOMAIN frame.rel |-> Pickled(frame.rel[n])]]

\* pickle.loads(pickle.dumps(self._preDump(d)))
clone(frame) == PickledFrame(preDump(frame))

\* The first constraint definition of cdefs whose factory raises in namespace
\* ns; Len(cdefs) + 1 if none does
firstBad(cdefs, ns) ==
    Min({i \in 1..Len(cdefs) : bindConstraint(cdefs[i], ns) # "ok"} \cup {Len(cdefs) + 1})

\* r.constraints = {} and the constraints bound before definition k
boundUpTo(rel, k, scope) ==
    [rel EXCEPT !.cons = [i \in 1..(k - 1) |-> rel.cdefs[i].name], !.scope = scope]

postLoadExc(cdefs, ns, k) ==
    IF k > Len(cdefs) THEN "none" ELSE bindConstraint(cdefs[k], ns)

RECURSIVE postLoadFrom(_, _, _)
postLoadFrom(frame, scope, i) ==
    IF i > Len(frame.order) THEN [frame |-> frame, exc |-> "none"]
    ELSE IF firstBad(frame.rel[frame.order[i]].cdefs, frame.rel)
              <= Len(frame.rel[frame.order[i]].cdefs)
    THEN [frame |-> frameSet(frame, frame.order[i],
                             boundUpTo(frame.rel[frame.order[i]],
                                       firstBad(frame.rel[frame.order[i]].cdefs, frame.rel),
                                       scope)),
          exc |-> postLoadExc(frame.rel[frame.order[i]].cdefs, frame.rel,
                              firstBad(frame.rel[frame.order[i]].cdefs, frame.rel))]
    ELSE postLoadFrom(frameSet(frame, frame.order[i],
                               boundUpTo(frame.rel[frame.order[i]],
                                         Len(frame.rel[frame.order[i]].cdefs) + 1, scope)),
                      scope, i + 1)

\* _postLoad over the namespace of the current transaction: the namespace with
\* the constraints bound up to the first factory that raises, and the exception
postLoad(frame, scope) == postLoadFrom(frame, scope, 1)

RECURSIVE addViews(_, _)
addViews(frame, i) ==
    IF i > Len(ViewNames) THEN frame
    ELSE addViews(frameSet(frame, ViewNames[i], NewView(ViewNames[i])), i + 1)

\* A scope that is the committed namespace whatever the transaction
scopeCommitted(tid) == "transactions[0]"

\* self.transactions[self.transactionId], the dict the factories are given
scopeOf(tid) == "transactions[" \o ToString(tid) \o "]"

vinitViews(d, loaded) ==
    IF loaded.exc # "none"
    THEN [db |-> [d EXCEPT !.transactions[d.transactionId] = loaded.frame],
          exc |-> loaded.exc]
    ELSE [db |-> [d EXCEPT !.transactions[d.transactionId] = addViews(loaded.frame, 1),
                           !.readonly = Range(ViewNames)],
          exc |-> "none"]

\* _vinit: _postLoad, then the catalog relvars are assigned in the current
\* namespace and made read-only. An exception of _postLoad ends it there.
vinit(d) == vinitViews(d, postLoad(d.transactions[d.transactionId], scopeOf(d.transactionId)))

\* Database(): one empty namespace, then _vinit
NewDatabase ==
    vinit([transactions |-> [i \in {0} |-> EmptyFrame], transactionId |-> 0,
           readonly |-> {}]).db

\* The namespaces 0..tid, the one of tid being top
framesTo(ts, tid, top) == [i \in 0..tid |-> IF i = tid THEN top ELSE ts[i]]

\* A begin that nested: no test of transactionId
beginNested(d) ==
    vinit([d EXCEPT !.transactionId = d.transactionId + 1,
                    !.transactions = framesTo(d.transactions, d.transactionId + 1,
                                              clone(d.transactions[d.transactionId]))])

\* begin(): a new namespace holding a pickled copy of the current one
begin(d) ==
    IF d.transactionId # 0 THEN [db |-> d, exc |-> "AssertionError"]
    ELSE vinit([d EXCEPT !.transactionId = d.transactionId + 1,
                         !.transactions = framesTo(d.transactions, d.transactionId + 1,
                                                   clone(d.transactions[d.transactionId]))])

\* A commit that dropped the transaction's namespace and kept the one below
commitDroppingFrame(d) ==
    [d EXCEPT !.transactionId = d.transactionId - 1,
              !.transactions = [i \in 0..(d.transactionId - 1) |-> d.transactions[i]]]

\* A rollback that put a copy of the transaction's namespace below
rollbackKeepingFrame(d) ==
    [d EXCEPT !.transactionId = d.transactionId - 1,
              !.transactions = framesTo(d.transactions, d.transactionId - 1,
                                        clone(d.transactions[d.transactionId]))]

\* commit() up to _dump: the namespace below becomes a pickled copy of the
\* current one, which is deleted
commitFrames(d) ==
    [d EXCEPT !.transactionId = d.transactionId - 1,
              !.transactions = framesTo(d.transactions, d.transactionId - 1,
                                        clone(d.transactions[d.transactionId]))]

\* A __getstate__ that pickled the namespace of the current transaction
getstateCurrent(d) ==
    [transactionId |-> 0,
     transactions |-> [i \in {0} |-> clone(d.transactions[d.transactionId])]]

\* Database.__getstate__ as pickle.dump sees it: transactionId 0 and namespace 0
\* alone, without its computed relations; the relations pickle without their
\* constraints
getstate(d) ==
    [transactionId |-> 0,
     transactions |-> [i \in {0} |-> clone(d.transactions[0])]]

\* What __getstate__ leaves of the live database: odict["transactions"] is the
\* live dict, whose namespace 0 is replaced by its _preDump copy
afterDump(d) == [d EXCEPT !.transactions[0] = preDump(@)]

\* commit(): the database after it and the exception it ends in
commit(d) ==
    IF d.transactionId <= 0 THEN [db |-> d, exc |-> "AssertionError"]
    ELSE vinit(afterDump(commitFrames(d)))

\* rollback() up to _vinit: the current namespace is deleted
rollbackFrames(d) ==
    [d EXCEPT !.transactionId = d.transactionId - 1,
              !.transactions = [i \in 0..(d.transactionId - 1) |-> d.transactions[i]]]

rollback(d) ==
    IF d.transactionId <= 0 THEN [db |-> d, exc |-> "AssertionError"]
    ELSE vinit(rollbackFrames(d))

\* Database.load(): the unpickled database, which has no _readonly, then _vinit
load(stored) ==
    vinit([transactions |-> stored.transactions, transactionId |-> stored.transactionId,
           readonly |-> {}])

\* The namespace attribute access goes to
current(d) == d.transactions[d.transactionId]

\* The namespace the bound constraints of rel read: the dict _postLoad gave
\* their factories; none for a relation with no constraint bound
boundNs(d, rel) ==
    IF \E i \in DOMAIN d.transactions : rel.scope = scopeOf(i)
    THEN d.transactions[CHOOSE i \in DOMAIN d.transactions : rel.scope = scopeOf(i)].rel
    ELSE <<>>

\* vrelations(): [Tuple(relation_name=k) for (k, v) in self], self iterating
\* the namespace of the current transaction when the scan is made
vrelations(d) ==
    [i \in 1..Len(current(d).order) |-> [n \in {"relation_name"} |-> current(d).order[i]]]

\* __setattr__(item, value) for value a Relation
setattr(d, item, value) ==
    IF item \in d.readonly THEN [db |-> d, exc |-> "AttributeError"]
    ELSE [db |-> [d EXCEPT !.transactions[d.transactionId] = frameSet(@, item, value)],
          exc |-> "none"]

\* __delattr__(item) for item a relation of the current namespace
delattr(d, item) ==
    IF item \in d.readonly THEN [db |-> d, exc |-> "AttributeError"]
    ELSE [db |-> [d EXCEPT !.transactions[d.transactionId] = frameDel(@, item)],
          exc |-> "none"]

\* Relation(heading, body, constraints) inside a method of the Database (a
\* frame whose self is the Database): no constraint is bound, so none is
\* checked on the body
NewDeferred(heading, body, constraints) ==
    addRows(EmptyRelation(heading, constraints, <<>>, ""), body)

\* The outcome of an in-place call on the relation under item: the relation is
\* changed in place, whether or not the call raised
inPlace(d, item, out) ==
    [db |-> [d EXCEPT !.transactions[d.transactionId] = frameSet(@, item, out.rel)],
     exc |-> out.exc]

\* The materialized relvars of a namespace, each with its set of tuples
MatValues(frame) ==
    [n \in {m \in DOMAIN frame.rel : ~IsComputed(frame.rel[m])} |-> Tuples(frame.rel[n])]

\* ------------------------------------------------- a relation and its client
VARIABLES
    r,        \* the relation the client mutates
    r2,       \* the relation a foreign key of r references
    res,      \* what the last call on r or r2 was and how it ended
    db,       \* the Database: transactions, transactionId, _readonly
    storage,  \* what the last _dump wrote
    atBegin,  \* the materialized relvars of the committed frame at the last begin()
    last,     \* what the last call on the database was and how it ended
    calls,    \* how many calls the client has made on the database
    args,     \* the operands of an operator of the algebra
    applied,  \* the operator last applied to them and what it returned
    heap      \* the Relation objects of a client and the lists their bodies are

relvars == <<r, r2, res>>

dbvars == <<db, storage, atBegin, last, calls>>

algvars == <<args, applied, heap>>

vars == <<r, r2, res, db, storage, atBegin, last, calls, args, applied, heap>>

\* The rows of a relation with heading (a, b): a is the key value, b one of two
\* other values.
BVals == {1, 2}

Rows == {<<x, y>> : x \in 1..MaxVal, y \in BVals}

Batches == SeqsOver(Rows, MaxBatch)

\* The constraints argument of the constructor, for the relation r
Declarations ==
    {DefaultConstraints,
     <<KeyDef("pk", <<"a">>)>>,
     <<KeyDef("pk", <<"a">>), ConstraintDef("c", "countInRange")>>,
     <<ConstraintDef("c", "countInRange")>>,
     <<ConstraintDef("c", "b_gt_a")>>}

FkDeclarations == {<<ForeignKeyDef("fk", "r2", << <<"a", "k">> >>)>>}

\* The namespace the client's constraints resolve names in: its local variables
clientNs(x, y) == [n \in {"r", "r2"} |-> IF n = "r" THEN x ELSE y]

\* Relation(heading, body, constraints) in client code: the constraints are
\* bound at once and the body is checked against them.
NewRelation(heading, body, constraints, self, ns) ==
    IF ~validateHeading(heading) THEN [exc |-> "RelationException", rel |-> <<>>]
    ELSE IF \E i \in 1..Len(constraints) : bindConstraint(constraints[i], ns) # "ok"
    THEN [exc |-> bindConstraint(constraints[
                     CHOOSE i \in 1..Len(constraints) :
                        bindConstraint(constraints[i], ns) # "ok"], ns),
          rel |-> <<>>]
    ELSE addToBody(EmptyRelation(heading, constraints, Names(constraints), "client"),
                   body, self, ns)

\* r2 = Relation(["k"], [...], {"pk": (Key, ["k"])})
InitR2 ==
    NewRelation(<<"k">>, [i \in 1..MaxVal |-> <<i>>], <<KeyDef("pk", <<"k">>)>>,
                "r2", <<>>).rel

NoRes ==
    [op |-> "init", exc |-> "none", phase |-> "", arg |-> "", pred |-> "",
     cond |-> CondTrue, present |-> FALSE]

HasPred(x) == \E i \in 1..Len(x.cdefs) : x.cdefs[i].kind = "constraintFromLambdaFactory"

predShown(v) ==
    IF v.isRel THEN (IF v.n = 0 THEN "empty" ELSE "nonempty")
    ELSE (IF v.b THEN "true" ELSE "false")

\* What the predicate constraint of x returns, for the record
predValue(x) ==
    IF HasPred(x)
    THEN predShown(PredApply(x.cdefs[CHOOSE i \in 1..Len(x.cdefs) :
                               x.cdefs[i].kind = "constraintFromLambdaFactory"].p.pred, x))
    ELSE ""

made(c, b) == NewRelation(<<"a", "b">>, b, c, "r", [n \in {"r2"} |-> InitR2])

NoStorage ==
    [written |-> FALSE, transactionId |-> 0, transactions |-> [i \in {0} |-> EmptyFrame]]

NoLast == [op |-> "init", exc |-> "none", name |-> "", row |-> <<>>, dirty |-> FALSE]

\* No operator applied
NoApplied == [op |-> "init", exc |-> "none", rel |-> Raised("none").rel,
              altexc |-> "none", alt |-> Raised("none").rel, heading |-> <<>>, arg |-> <<>>]

\* No object is followed
NoHeap == [lists |-> <<>>, objs |-> <<>>, mutated |-> 0]

InitAlgIdle ==
    /\ args = <<>>
    /\ applied = NoApplied
    /\ heap = NoHeap

\* Database(), nothing dumped yet
InitDB ==
    /\ db = NewDatabase
    /\ storage = NoStorage
    /\ atBegin = MatValues(EmptyFrame)
    /\ last = NoLast
    /\ calls = 0

InitWith(decls, rows) ==
    /\ InitDB
    /\ InitAlgIdle
    /\ r2 = InitR2
    /\ \E c \in decls, b \in ListsOver(rows, MaxList) :
         /\ made(c, b).exc = "none"
         /\ r = made(c, b).rel
    /\ res = NoRes

Init == InitWith(Declarations, Rows)

\* Whether batch B holds a row whose referencing value is no key of r2
unmatched(B) ==
    IF \E i \in 1..Len(B) : \A t \in Tuples(r2) : t["k"] # B[i][1]
    THEN "unmatched" ELSE "matched"

\* Whether batch B holds a row and every row of it is in r already
allPresent(B) == B # <<>> /\ Range(B) \subseteq Range(r.body)

\* The outcome of a call, recorded
Done(out, op, phase, arg, pred, cond, present) ==
    /\ r' = out.rel
    /\ res' = [op |-> op, exc |-> out.exc, phase |-> phase, arg |-> arg, pred |-> pred,
               cond |-> cond, present |-> present]
    /\ UNCHANGED <<dbvars, algvars>>

\* r |= Relation(("a", "b"), B)
Insert(B) ==
    /\ Len(r.body) + Len(B) <= MaxRows
    /\ Done(ior(r, MkRel(<<"a", "b">>, B), "r", clientNs(r, r2)), "insert", "",
            unmatched(B), predValue(addRows(r, B)), CondTrue, allPresent(B))
    /\ UNCHANGED r2

\* r -= Relation(("a", "b"), B)
Delete(B) ==
    /\ Done(isub(r, MkRel(<<"a", "b">>, B), "r", clientNs(r, r2)), "delete", "", "",
            predValue(removeRows(r, B)), CondTrue, FALSE)
    /\ UNCHANGED r2

UpdateDone(out, cond) ==
    Done(out, "update", IF out.exc = "none" THEN "" ELSE out.phase, "", "", cond, FALSE)

\* The restrictions the client updates under
Conds == {CondEq("a", v) : v \in 1..MaxVal} \cup {CondLe("a", v) : v \in 2..MaxVal}

\* r.update(cond, [h], lambda u: {h: w})
Update(cond, h, w) ==
    /\ UpdateDone(update(r, cond, <<h>>, [x \in {h} |-> w], "r", clientNs(r, r2)), cond)
    /\ UNCHANGED r2

Next ==
    \/ \E B \in Batches : Insert(B)
    \/ \E B \in Batches : Delete(B)
    \/ \E cond \in Conds, w \in 1..MaxVal : Update(cond, "a", w)
    \/ \E cond \in Conds, w \in BVals : Update(cond, "b", w)

Spec == Init /\ [][Next]_vars

\* --------------------------------------- a referencing relation and its client
\* r2 |= Relation(["k"], [(v,)])
InsertR2(v) ==
    /\ r2' = ior(r2, MkRel(<<"k">>, <<<<v>>>>), "r2", clientNs(r, r2)).rel
    /\ res' = [NoRes EXCEPT !.op = "insert2",
                            !.exc = ior(r2, MkRel(<<"k">>, <<<<v>>>>), "r2",
                                        clientNs(r, r2)).exc]
    /\ UNCHANGED <<r, dbvars, algvars>>

\* r2 -= Relation(["k"], [(v,)])
DeleteR2(v) ==
    /\ r2' = isub(r2, MkRel(<<"k">>, <<<<v>>>>), "r2", clientNs(r, r2)).rel
    /\ res' = [NoRes EXCEPT !.op = "delete2",
                            !.exc = isub(r2, MkRel(<<"k">>, <<<<v>>>>), "r2",
                                         clientNs(r, r2)).exc]
    /\ UNCHANGED <<r, dbvars, algvars>>

\* The rows the client of the referencing relation works with
FkRows == {<<x, 1>> : x \in 1..MaxVal}

FkBatches == SeqsOver(FkRows, MaxBatch)

InitFK == InitWith(FkDeclarations, FkRows)

NextFK ==
    \/ \E B \in FkBatches : Insert(B)
    \/ \E B \in FkBatches : Delete(B)
    \/ \E v \in 1..MaxVal : InsertR2(v)
    \/ \E v \in 1..MaxVal : DeleteR2(v)

SpecFK == InitFK /\ [][NextFK]_vars

\* ------------------------------------------------ a Database and its client
\* The relvars of the suppliers-and-parts database, cut to two attributes each,
\* with the constraints date_Database_script.py declares on them
RelvarNames == {"S", "SP"}

RelvarHeading(name) == IF name = "S" THEN <<"S#", "CITY">> ELSE <<"S#", "P#">>

RelvarConstraints(name) ==
    IF name = "S" THEN <<KeyDef("pk", <<"S#">>)>>
    ELSE <<KeyDef("pk", <<"S#", "P#">>),
           ForeignKeyDef("fkS", "S", << <<"S#", "S#">> >>)>>

MaxSno == 2

\* The client makes at most this many calls on the database
MaxCalls == 5

\* The rows the client writes: a supplier number, and one city or part
DbRows == {<<x, 1>> : x \in 1..MaxSno}

DbBodies == SeqsOver(DbRows, MaxBatch)

InitIdle ==
    /\ r = InitR2
    /\ r2 = InitR2
    /\ res = NoRes

\* Whether the current namespace differs from the committed one in a
\* materialized relvar
Dirty(d) == MatValues(current(d)) # MatValues(d.transactions[0])

\* The outcome of a call on the database, recorded
DbDone(out, op, name, row) ==
    /\ calls < MaxCalls
    /\ calls' = calls + 1
    /\ db' = out.db
    /\ last' = [op |-> op, exc |-> out.exc, name |-> name, row |-> row, dirty |-> Dirty(db)]
    /\ UNCHANGED <<relvars, algvars>>

\* db.begin()
Begin ==
    /\ DbDone(begin(db), "begin", "", <<>>)
    /\ atBegin' = IF db.transactionId = 0 THEN MatValues(current(db)) ELSE atBegin
    /\ UNCHANGED storage

\* db.commit()
Commit ==
    /\ DbDone(commit(db), "commit", "", <<>>)
    /\ storage' = IF db.transactionId > 0
                  THEN [written |-> TRUE,
                        transactionId |-> getstate(commitFrames(db)).transactionId,
                        transactions |-> getstate(commitFrames(db)).transactions]
                  ELSE storage
    /\ UNCHANGED atBegin

\* db.rollback()
Rollback ==
    /\ DbDone(rollback(db), "rollback", "", <<>>)
    /\ UNCHANGED <<storage, atBegin>>

\* self.<name> = Relation(heading, body, constraints) in a method of the Database
Assign(name, body) ==
    /\ DbDone(setattr(db, name, NewDeferred(RelvarHeading(name), body,
                                            RelvarConstraints(name))),
              "assign", name, <<>>)
    /\ UNCHANGED <<storage, atBegin>>

\* del db.<name>
DeleteRelvar(name) ==
    /\ name \in DOMAIN current(db).rel
    /\ DbDone(delattr(db, name), "del", name, <<>>)
    /\ UNCHANGED <<storage, atBegin>>

\* db.<name> |= Relation(heading, [row])
InsertRow(name, row) ==
    /\ name \in DOMAIN current(db).rel
    /\ DbDone(inPlace(db, name, ior(current(db).rel[name],
                                    MkRel(RelvarHeading(name), <<row>>),
                                    name, boundNs(db, current(db).rel[name]))),
              "insert", name, row)
    /\ UNCHANGED <<storage, atBegin>>

\* db.<name> -= Relation(heading, [row])
DeleteRow(name, row) ==
    /\ name \in DOMAIN current(db).rel
    /\ DbDone(inPlace(db, name, isub(current(db).rel[name],
                                     MkRel(RelvarHeading(name), <<row>>),
                                     name, boundNs(db, current(db).rel[name]))),
              "delete", name, row)
    /\ UNCHANGED <<storage, atBegin>>

\* load() raised: the client keeps the database it had
loadOutcome(d, loaded) == IF loaded.exc = "none" THEN loaded ELSE [db |-> d, exc |-> loaded.exc]

\* db = Database.load(name), after a dump
Load ==
    /\ storage.written
    /\ DbDone(loadOutcome(db, load(storage)), "load", "", <<>>)
    /\ UNCHANGED <<storage, atBegin>>

\* _dump(): what pickle.dump(self, f) writes
dump(d) ==
    [written |-> TRUE, transactionId |-> getstate(d).transactionId,
     transactions |-> getstate(d).transactions]

\* _fnexit(), the flush registered with atexit: _dump() on the database as it
\* is. What the model lets follow it is what a program sees that calls _dump().
Flush ==
    /\ DbDone([db |-> afterDump(db), exc |-> "none"], "exit", "", <<>>)
    /\ storage' = dump(db)
    /\ UNCHANGED atBegin

InitD == InitDB /\ InitIdle /\ InitAlgIdle

NextDB ==
    \/ Begin
    \/ Commit
    \/ Rollback
    \/ Load
    \/ Flush
    \/ \E name \in RelvarNames, body \in DbBodies : Assign(name, body)
    \/ \E name \in RelvarNames \cup {"relations"} : DeleteRelvar(name)
    \/ \E name \in RelvarNames, row \in DbRows : InsertRow(name, row)
    \/ \E name \in RelvarNames, row \in DbRows : DeleteRow(name, row)

SpecDB == InitD /\ [][NextDB]_vars

\* --------------------------------------- the operators of the algebra
\* Three operand relations over the headings (a), (a, b), (b, k), (k) and ():
\* list bodies built from rows given in any order, and views, functions of no
\* argument that return the tuples of such rows.
AlgVals == 1..MaxAlgVal

AlgRowsOf(heading) == [1..Len(heading) -> AlgVals]

AlgBodies(heading) == SeqsOver(AlgRowsOf(heading), MaxAlgRows)

AlgLists(heading) == {MkRel(heading, body) : body \in AlgBodies(heading)}

AlgViews(heading) == {MkView(heading, body) : body \in AlgBodies(heading)}

AlgFunctions ==
    {MkFunction(<<"a">>, CondEq("a", 1)), MkFunction(<<"a">>, CondTrue),
     MkFunction(<<"a", "b">>, CondEq("b", 1))}

AlgOperands ==
    AlgLists(<<"a">>) \cup AlgViews(<<"a">>) \cup AlgLists(<<"a", "b">>)
        \cup AlgViews(<<"a", "b">>) \cup AlgLists(<<"b", "k">>) \cup AlgLists(<<"k">>)
        \cup AlgLists(<<>>) \cup AlgFunctions

AlgThird == {MkRel(<<"b">>, <<<<1>>>>), MkView(<<"a">>, <<<<2>>, <<1>>>>),
             MkRel(<<"a", "k">>, <<<<1, 2>>, <<2, 2>>>>),
             MkFunction(<<"a", "b">>, CondEq("a", 2))}

InitAlg ==
    /\ InitDB
    /\ InitIdle
    /\ args \in AlgOperands \X AlgOperands \X AlgThird
    /\ applied = NoApplied
    /\ heap = NoHeap

\* What a call of an operator leaves: its name, the exception it raised and the
\* relation it returned, and the same of the call it is compared with
Applied(op, x, y) ==
    [NoApplied EXCEPT !.op = op, !.exc = x.exc, !.rel = x.rel,
                      !.altexc = y.exc, !.alt = y.rel]

\* One operator is applied to the operands, which it leaves as they are
Applying ==
    /\ applied.op = "init"
    /\ UNCHANGED <<relvars, dbvars, args, heap>>

SameHeading(x, y) == headingSet(x) = headingSet(y)

\* MINUS(r1, r2)
Minus ==
    /\ Applying
    /\ applied' = Applied("MINUS", MINUScall(args[1], args[2]), Raised("none"))

\* AND(r1, r2), and AND(r2, r1)
And ==
    /\ Applying
    /\ applied' = Applied("AND", ANDcall(args[1], args[2]), ANDcall(args[2], args[1]))

\* AND(AND(r1, r2), r3), and AND(r1, AND(r2, r3))
AndAnd ==
    /\ Applying
    /\ applied' = Applied("ANDAND", ANDthen(ANDcall(args[1], args[2]), args[3]),
                          ANDinto(args[1], ANDcall(args[2], args[3])))

\* OR(r1, r2), and OR(r2, r1)
Or ==
    /\ Applying
    /\ applied' = Applied("OR", ORcall(args[1], args[2]), ORcall(args[2], args[1]))

NextAlg ==
    \/ Minus
    \/ And
    \/ AndAnd
    \/ Or

SpecAlg == InitAlg /\ [][NextAlg]_vars

\* ------------------------------------------- headings and their names
\* A list-bodied relation, and the headings and new names a client gives: the
\* names a and b, the empty string and a name that is no string.
AttrNames == {"a", "b", "", NonString}

HeadingLists == ListsOver(AttrNames, MaxHeading)

AlgRenamed == AlgLists(<<"a">>) \cup AlgLists(<<"a", "b">>) \cup AlgLists(<<"b", "k">>)

InitHeading ==
    /\ InitDB
    /\ InitIdle
    /\ args \in {<<x>> : x \in AlgRenamed}
    /\ applied = NoApplied
    /\ heap = NoHeap

\* What a call that builds a relation leaves: its name, how it ended, and the
\* heading it was to build
AppliedHeading(op, x, heading) ==
    [NoApplied EXCEPT !.op = op, !.exc = x.exc,
                      !.rel = IF x.exc = "none" THEN x.rel ELSE Raised(x.exc).rel,
                      !.heading = heading]

\* Relation(heading, [(1, ..., 1)])
Construct(heading) ==
    /\ Applying
    /\ applied' = AppliedHeading("construct",
                                 NewRelation(heading, <<[i \in 1..Len(heading) |-> 1]>>,
                                             DefaultConstraints, "r", <<>>),
                                 heading)

\* r.rename({x: y})
Rename(x, y) ==
    /\ Applying
    /\ applied' = AppliedHeading("rename", rename(args[1], << <<x, y>> >>),
                                 renamedAll(<< <<x, y>> >>, args[1].heading))

NextHeading ==
    \/ \E heading \in HeadingLists : Construct(heading)
    \/ \E x \in {"a", "b"}, y \in AttrNames : Rename(x, y)

SpecHeading == InitHeading /\ [][NextHeading]_vars

\* ------------------------------------------- the shipments of Date's data
\* SP = Relation(('S#', 'P#', 'QTY'), [...], {'pk': (Key, ['S#', 'P#']), ...}):
\* the rows of the script. The foreign keys of SP need S and P and are not read
\* by the operators applied here.
DateSP ==
    << <<"S1", "P1", 300>>, <<"S1", "P2", 200>>, <<"S1", "P3", 400>>, <<"S1", "P4", 200>>,
       <<"S1", "P5", 100>>, <<"S1", "P6", 100>>, <<"S2", "P1", 300>>, <<"S2", "P2", 400>>,
       <<"S3", "P2", 200>>, <<"S4", "P2", 200>>, <<"S4", "P4", 300>>, <<"S4", "P5", 400>> >>

Suppliers == {"S1", "S2", "S3", "S4"}

\* SP with the shipments of the suppliers S only
ShipmentsOf(S) ==
    NewRelation(<<"S#", "P#", "QTY">>, SelectSeq(DateSP, LAMBDA row : row[1] \in S),
                <<KeyDef("pk", <<"S#", "P#">>)>>, "SP", <<>>).rel

InitSP ==
    /\ InitDB
    /\ InitIdle
    /\ args \in {<<ShipmentsOf(S)>> : S \in SUBSET Suppliers}
    /\ applied = NoApplied
    /\ heap = NoHeap

\* What a call on the shipments leaves: its name, its arguments, how it ended
AppliedTo(op, arg, x) ==
    [NoApplied EXCEPT !.op = op, !.exc = x.exc, !.rel = x.rel, !.arg = arg]

\* RESTRICT(SP, lambda t: t.QTY > q)
Restrict(q) ==
    /\ Applying
    /\ applied' = AppliedTo("restrict", <<q>>,
                            Returned("none", RESTRICT(args[1], CondGt("QTY", q))))

\* QUOTA(SP, limit, ['QTY'], asc)
Quota(limit, asc) ==
    /\ Applying
    /\ applied' = AppliedTo("quota", <<limit, asc>>, QUOTA(args[1], limit, <<"QTY">>, asc))

Quantities == {DateSP[i][3] : i \in 1..Len(DateSP)}

NextSP ==
    \/ \E q \in Quantities : Restrict(q)
    \/ \E limit \in 0..MaxLimit, asc \in BOOLEAN : Quota(limit, asc)

SpecSP == InitSP /\ [][NextSP]_vars

\* ------------------------------------------- the macros on list bodies
\* Relations a client builds for TCLOSE, GROUP and WRAP: headings of one, two
\* and three attributes, one of them with the name "_Z", bodies of rows in any
\* order, and a key declared on a or none declared.
MaxMacroVal == 3

MaxMacroRows == 3

MacroHeadings == {<<"a">>, <<"a", "b">>, <<"b", "a">>, <<"a", "_Z">>, <<"a", "b", "k">>}

MacroConstraints == {DefaultConstraints, <<KeyDef("pk", <<"a">>)>>}

MacroVals(heading) == IF Len(heading) = 3 THEN 1..(MaxMacroVal - 1) ELSE 1..MaxMacroVal

MacroBodies(heading) ==
    SeqsOver([1..Len(heading) -> MacroVals(heading)], MaxMacroRows)

MacroMade(heading) ==
    {NewRelation(heading, b, c, "r", <<>>) : b \in MacroBodies(heading), c \in MacroConstraints}

MacroRelations == {x.rel : x \in {y \in UNION {MacroMade(h) : h \in MacroHeadings} : y.exc = "none"}}

InitMacro ==
    /\ InitDB
    /\ InitIdle
    /\ args \in {<<x>> : x \in MacroRelations}
    /\ applied = NoApplied
    /\ heap = NoHeap

\* TCLOSE(x.rel), where the call that gave x returned
TCLOSEof(x) == IF x.exc # "none" THEN {x} ELSE TCLOSE(x.rel)

\* TCLOSE(r), and TCLOSE(TCLOSE(r))
Tclose ==
    /\ Applying
    /\ \E x \in TCLOSE(args[1]) : \E y \in TCLOSEof(x) :
          applied' = Applied("TCLOSE", x, y)

\* UNGROUP(GROUP(r, Hr, name), name)
GroupUngroup(Hr, name) ==
    /\ Applying
    /\ Range(Hr) \subseteq headingSet(args[1])
    /\ applied' = AppliedTo("group", <<Hr, name>>, UNGROUPof(GROUP(args[1], Hr, name), name))

\* UNWRAP(WRAP(r, Hr, name), name)
WrapUnwrap(Hr, name) ==
    /\ Applying
    /\ Range(Hr) \subseteq headingSet(args[1])
    /\ applied' = AppliedTo("wrap", <<Hr, name>>, UNWRAPof(WRAP(args[1], Hr, name), name))

MacroAttributeLists == {HeadingOfSet(S) : S \in SUBSET {"a", "b", "k", "_Z"}}

NextMacro ==
    \/ Tclose
    \/ \E Hr \in MacroAttributeLists, name \in {"x", "a"} : GroupUngroup(Hr, name)
    \/ \E Hr \in MacroAttributeLists, name \in {"x", "a"} : WrapUnwrap(Hr, name)

SpecMacro == InitMacro /\ [][NextMacro]_vars

\* ------------------------------------ insert, delete and update in place
\* The relation a client changes in place: a list body over (a, b) or (D, b),
\* with the default key or a key declared on b, a view or a function of one
\* argument over (a, b); and the relation it inserts or deletes
MaxMutVal == 2

MaxMutRows == 2

MutHeadings == {<<"a", "b">>, <<"D", "b">>}

MutBodies == SeqsOver([1..2 -> 1..MaxMutVal], MaxMutRows)

MutConstraints == {DefaultConstraints, <<KeyDef("pk", <<"b">>)>>}

MutMade ==
    {NewRelation(h, b, c, "r", <<>>) : h \in MutHeadings, b \in MutBodies, c \in MutConstraints}

MutLists == {x.rel : x \in {y \in MutMade : y.exc = "none"}}

MutComputed ==
    {MkView(<<"a", "b">>, b) : b \in MutBodies}
        \cup {MkFunction(<<"a", "b">>, CondEq("a", 1)), MkFunction(<<"a", "b">>, CondTrue)}

MutBatches == {MkRel(h, b) : h \in MutHeadings, b \in {c \in MutBodies : Len(c) <= 1}}

InitMutate ==
    /\ InitDB
    /\ InitIdle
    /\ args \in (MutLists \cup MutComputed) \X MutBatches
    /\ applied = NoApplied
    /\ heap = NoHeap

\* r |= rel
InsertInto ==
    /\ Applying
    /\ applied' = AppliedTo("insert", <<>>, ior(args[1], args[2], "r", <<>>))

\* r -= rel
DeleteFrom ==
    /\ Applying
    /\ applied' = AppliedTo("delete", <<>>, isub(args[1], args[2], "r", <<>>))

\* r.update(lambda t: t.<attr> == v, [h], lambda u: {h: w})
UpdateWhere(attr, v, h, w) ==
    /\ Applying
    /\ {attr, h} \subseteq headingSet(args[1])
    /\ applied' = AppliedTo("update", <<CondEq(attr, v), h, w>>,
                            update(args[1], CondEq(attr, v), <<h>>, [x \in {h} |-> w],
                                   "r", <<>>))

NextMutate ==
    \/ InsertInto
    \/ DeleteFrom
    \/ \E attr \in {"a", "b", "D"}, v \in 1..MaxMutVal, h \in {"a", "b", "D"},
          w \in 1..(MaxMutVal + 1) : UpdateWhere(attr, v, h, w)

SpecMutate == InitMutate /\ [][NextMutate]_vars

\* ------------------------------------------- relations as objects of a client
\* Two relations a client holds, the relation an operator returns from them,
\* and an insert or a delete on one of the three afterwards. A Relation keeps
\* its rows in a list, _body, that the calls in place append to and delete
\* from: the objects are kept apart from the lists, so that two objects with
\* one list show.
MaxAliasVal == 2

MaxAliasRows == 2

AliasBodies == SeqsOver([1..2 -> 1..MaxAliasVal], MaxAliasRows)

AliasMade(headings, constraints) ==
    {x.rel : x \in {y \in {NewRelation(h, b, c, "r", <<>>) :
                               h \in headings, b \in AliasBodies, c \in constraints} :
                     y.exc = "none"}}

AliasFirst == AliasMade({<<"a", "b">>}, {DefaultConstraints, <<KeyDef("pk", <<"a">>)>>})

AliasSecond == AliasMade({<<"a", "b">>, <<"b", "k">>}, {DefaultConstraints})

\* A Relation object: what it holds but its rows, and the list its _body is
Object(rel, ref) == [rel |-> [rel EXCEPT !.body = <<>>], ref |-> ref]

\* The relation the k-th object is, its rows read from its list
deref(hp, k) == [hp.objs[k].rel EXCEPT !.body = hp.lists[hp.objs[k].ref]]

\* A setBody that keeps the list it is given as the body
setBodyGiven(given, fresh) == given

\* setBody(body): self._body = [], a new list, to which the rows of the list
\* given are added
setBody(given, fresh) == fresh

\* Relation(heading, body, constraints) for body the list given, which gave rel
constructed(hp, rel, given) ==
    [hp EXCEPT !.lists = Append(hp.lists, rel.body),
               !.objs = Append(hp.objs, Object(rel, setBody(given, Len(hp.lists) + 1)))]

\* Bs = [...] and Relation(Hs, Bs): the list of the operator, then the object
built(hp, rel) ==
    constructed([hp EXCEPT !.lists = Append(hp.lists, rel.body)], rel, Len(hp.lists) + 1)

\* What an operator that ended with out leaves: a new object if it returned
returnedBuilt(hp, out) == IF out.exc # "none" THEN hp ELSE built(hp, out.rel)

\* What rename leaves, which hands the list given to the constructor
returnedFrom(hp, out, given) ==
    IF out.exc # "none" THEN hp ELSE constructed(hp, out.rel, given)

\* What a call in place on the k-th object leaves, the relation being rel after
mutatedAt(hp, k, rel) ==
    [hp EXCEPT !.lists[hp.objs[k].ref] = rel.body,
               !.objs[k] = Object(rel, hp.objs[k].ref),
               !.mutated = k]

InitAlias ==
    /\ InitDB
    /\ InitIdle
    /\ args \in AliasFirst \X AliasSecond
    /\ applied = NoApplied
    /\ heap = [lists |-> <<args[1].body, args[2].body>>,
               objs |-> <<Object(args[1], 1), Object(args[2], 2)>>,
               mutated |-> 0]

ObjApplying ==
    /\ applied.op = "init"
    /\ UNCHANGED <<relvars, dbvars, args>>

\* AND(r1, r2)
ObjAnd ==
    /\ ObjApplying
    /\ applied' = AppliedTo("AND", <<>>, ANDcall(deref(heap, 1), deref(heap, 2)))
    /\ heap' = returnedBuilt(heap, ANDcall(deref(heap, 1), deref(heap, 2)))

\* OR(r1, r2)
ObjOr ==
    /\ ObjApplying
    /\ applied' = AppliedTo("OR", <<>>, ORcall(deref(heap, 1), deref(heap, 2)))
    /\ heap' = returnedBuilt(heap, ORcall(deref(heap, 1), deref(heap, 2)))

\* MINUS(r1, r2)
ObjMinus ==
    /\ ObjApplying
    /\ applied' = AppliedTo("MINUS", <<>>, MINUScall(deref(heap, 1), deref(heap, 2)))
    /\ heap' = returnedBuilt(heap, MINUScall(deref(heap, 1), deref(heap, 2)))

\* REMOVE(r1, Hr)
ObjRemove(Hr) ==
    /\ ObjApplying
    /\ applied' = AppliedTo("REMOVE", Hr, Returned("none", REMOVE(deref(heap, 1), Hr)))
    /\ heap' = returnedBuilt(heap, Returned("none", REMOVE(deref(heap, 1), Hr)))

\* r1.rename({x: y})
ObjRename(x, y) ==
    /\ ObjApplying
    /\ applied' = AppliedTo("rename", <<x, y>>, rename(deref(heap, 1), << <<x, y>> >>))
    /\ heap' = returnedFrom(heap, rename(deref(heap, 1), << <<x, y>> >>), heap.objs[1].ref)

\* An operator has been applied and no object changed in place since
ObjMutating(k, row) ==
    /\ applied.op # "init"
    /\ heap.mutated = 0
    /\ k \in 1..Len(heap.objs)
    /\ Len(row) = Len(heap.objs[k].rel.heading)
    /\ UNCHANGED <<relvars, dbvars, args, applied>>

\* o |= Relation(o's heading, [row]), for o the k-th object
ObjInsert(k, row) ==
    /\ ObjMutating(k, row)
    /\ heap' = mutatedAt(heap, k, ior(deref(heap, k),
                                      MkRel(heap.objs[k].rel.heading, <<row>>),
                                      "r", <<>>).rel)

\* o -= Relation(o's heading, [row])
ObjDelete(k, row) ==
    /\ ObjMutating(k, row)
    /\ heap' = mutatedAt(heap, k, isub(deref(heap, k),
                                       MkRel(heap.objs[k].rel.heading, <<row>>),
                                       "r", <<>>).rel)

AliasRows == UNION {[1..n -> 1..MaxAliasVal] : n \in 1..3}

NextAlias ==
    \/ ObjAnd
    \/ ObjOr
    \/ ObjMinus
    \/ \E Hr \in {<<"a">>, <<"b">>, <<>>} : ObjRemove(Hr)
    \/ \E x \in {"a", "b"}, y \in {"x", "a", "b"} : ObjRename(x, y)
    \/ \E k \in 1..3, row \in AliasRows : ObjInsert(k, row)
    \/ \E k \in 1..3, row \in AliasRows : ObjDelete(k, row)

SpecAlias == InitAlias /\ [][NextAlias]_vars

\* ------------------------------------------------- properties of Spec
Violated(x) == x.exc = "RelationConstraintException"

\* The declared candidate keys of x, bound, hold of x
KeysHold(x) ==
    \A i \in 1..Len(x.cdefs) :
        (IsKey(x.cdefs[i]) /\ x.cdefs[i].name \in Range(x.cons)) => keyHolds(x, x.cdefs[i].p)

\* C3: an insert that raises a constraint violation leaves the relation with
\* the set of tuples it had before the call.
InsertViolationRestores ==
    [][(res'.op = "insert" /\ Violated(res')) => Tuples(r') = Tuples(r)]_vars

\* C4: a delete that raises a constraint violation leaves the relation with
\* the set of tuples it had before the call.
DeleteViolationRestores ==
    [][(res'.op = "delete" /\ Violated(res')) => Tuples(r') = Tuples(r)]_vars

\* C7: an insert or a delete, succeeding or raising, on a relation whose bound
\* candidate keys hold leaves them holding: no two tuples agree on a key.
KeyPreserved ==
    [][(res'.op \in {"insert", "delete"} /\ KeysHold(r)) => KeysHold(r')]_vars

\* C9: on a relation whose one constraint is a predicate, a mutation is
\* accepted exactly when the predicate returns an empty relation, or true, of
\* the mutated body, and raises a constraint violation exactly when it returns
\* a relation that is not empty, or false.
PredicateEmptyMeansSatisfied ==
    (res.op \in {"insert", "delete"} /\ Len(r.cdefs) = 1 /\ HasPred(r)) =>
        /\ res.pred \in {"empty", "true"} <=> res.exc = "none"
        /\ res.pred \in {"nonempty", "false"} <=> Violated(res)

\* C10: an update whose insert half raises a constraint violation leaves the
\* relation with the tuples it had before the update minus those the
\* restriction matched.
UpdateLeavesUnmatched ==
    [][(res'.op = "update" /\ res'.phase = "insert" /\ Violated(res')) =>
          Tuples(r') = {t \in Tuples(r) : ~Holds(res'.cond, t)}]_vars

\* ----------------------------------------------- properties of SpecFK
\* C6: an insert into the referencing relation of a batch holding a row whose
\* referencing value is no key value of the referenced relation raises a
\* constraint violation, and an insert whose rows all have a matching key value
\* succeeds.
ForeignKeyEnforced ==
    res.op = "insert" =>
        /\ res.arg = "unmatched" => Violated(res)
        /\ res.arg = "matched" => res.exc = "none"

\* ----------------------------------------------- properties of SpecDB
\* C1: after a rollback() of a transaction, the database is in namespace 0 and
\* its materialized relvars are those that existed at begin(), each with the
\* tuples it had then; no relvar created in the transaction exists.
RollbackRestores ==
    (last.op = "rollback" /\ last.exc # "AssertionError") =>
        /\ db.transactionId = 0
        /\ MatValues(db.transactions[0]) = atBegin

\* A rollback of a transaction that had changed a relvar, some relvar of the
\* committed namespace holding tuples
RollbackRestoresWitness ==
    /\ last.op = "rollback"
    /\ last.exc = "none"
    /\ last.dirty
    /\ \E n \in DOMAIN atBegin : atBegin[n] # {}

\* C2: a commit() of a transaction leaves the database in namespace 0, each
\* materialized relvar with the value it had in the transaction's namespace
\* just before, and the snapshot it wrote holds the same values.
CommitPublishes ==
    [][(last'.op = "commit" /\ last'.exc # "AssertionError") =>
          /\ db'.transactionId = 0
          /\ MatValues(db'.transactions[0]) = MatValues(current(db))
          /\ storage'.written
          /\ storage'.transactionId = 0
          /\ MatValues(storage'.transactions[0]) = MatValues(current(db))]_vars

\* A commit of a transaction that had changed a relvar, some relvar holding
\* tuples after it
CommitPublishesWitness ==
    /\ last.op = "commit"
    /\ last.exc = "none"
    /\ last.dirty
    /\ storage.written
    /\ \E n \in DOMAIN MatValues(db.transactions[0]) : MatValues(db.transactions[0])[n] # {}

\* Whether SP, its foreign key bound, holds a row for supplier number sno
Referenced(d, sno) ==
    /\ {"S", "SP"} \subseteq DOMAIN current(d).rel
    /\ "fkS" \in Range(current(d).rel["SP"].cons)
    /\ \E t \in Tuples(current(d).rel["SP"]) : t["S#"] = sno

\* C5: deleting from S the row of a supplier that SP, its foreign key bound,
\* still holds a row for raises a constraint violation and leaves S and SP as
\* they were.
DeleteReferencedRaises ==
    [][(last'.op = "delete" /\ last'.name = "S" /\ Referenced(db, last'.row[1])
        /\ last'.row \in Range(current(db).rel["S"].body)) =>
          /\ Violated(last')
          /\ MatValues(current(db')) = MatValues(current(db))]_vars

\* Whether S is there and holds no row for supplier number sno
Unmatched(d, sno) ==
    /\ {"S", "SP"} \subseteq DOMAIN current(d).rel
    /\ \A t \in Tuples(current(d).rel["S"]) : t["S#"] # sno

\* C8: an insert into SP, created in the database with a foreign key onto S,
\* of a row whose supplier number S does not hold raises a constraint
\* violation, whatever calls came between the creation and the insert.
DeferredConstraintsChecked ==
    [][(last'.op = "insert" /\ last'.name = "SP" /\ Unmatched(db, last'.row[1])) =>
          Violated(last')]_vars

\* A call that was rejected left the database and the storage as they were
Rejected ==
    /\ last'.exc = "AssertionError"
    /\ db' = db
    /\ storage' = storage

\* C11: transactionId is 0 or 1 and the namespaces are those of 0..transactionId;
\* begin() in a transaction, and commit() and rollback() outside one, are
\* rejected and leave transactionId, the namespaces and every relvar unchanged.
FrameStackShape ==
    /\ [](/\ db.transactionId \in {0, 1}
          /\ DOMAIN db.transactions = 0..db.transactionId)
    /\ [][/\ (last'.op = "begin" /\ db.transactionId # 0) => Rejected
          /\ (last'.op \in {"commit", "rollback"} /\ db.transactionId = 0) => Rejected]_vars

\* A begin() rejected in a transaction that had changed a relvar
FrameStackShapeWitness ==
    /\ last.op = "begin"
    /\ last.exc = "AssertionError"
    /\ db.transactionId = 1
    /\ last.dirty

\* C12: a snapshot, written by commit() or by the flush at exit, in a
\* transaction or not, has transactionId 0, holds namespace 0 alone, holds no
\* relvar whose body is computed, and holds the committed relvars with their
\* values, none of the transaction's.
SnapshotContent ==
    /\ [](storage.written =>
            /\ storage.transactionId = 0
            /\ DOMAIN storage.transactions = {0}
            /\ \A n \in DOMAIN storage.transactions[0].rel :
                  ~IsComputed(storage.transactions[0].rel[n]))
    /\ [][last'.op \in {"commit", "exit"} /\ last'.exc # "AssertionError" =>
            MatValues(storage'.transactions[0]) = MatValues(db'.transactions[0])]_vars

\* A flush in a transaction that had changed a relvar, the snapshot holding
\* tuples
SnapshotContentWitness ==
    /\ last.op = "exit"
    /\ db.transactionId = 1
    /\ last.dirty
    /\ storage.written
    /\ \E n \in DOMAIN storage.transactions[0].rel :
          Tuples(storage.transactions[0].rel[n]) # {}

\* ---------------------------------------------- properties of SpecAlg
\* C13: MINUS(r1, r2) of two relations with the same heading, each a list body
\* or a view, has the heading of r1 and exactly the tuples of r1 that are not
\* in r2.
MinusIsDifference ==
    (/\ applied.op = "MINUS"
     /\ SameHeading(args[1], args[2])
     /\ ~IsFunction(args[1]) /\ ~IsFunction(args[2])) =>
        /\ applied.exc = "none"
        /\ headingSet(applied.rel) = headingSet(args[1])
        /\ Tuples(applied.rel) = Tuples(args[1]) \ Tuples(args[2])

\* The tuple t on the attributes S
On(t, S) == [x \in S |-> t[x]]

\* The tuples over the attributes S whose parts on the headings of x and y are
\* tuples of x and of y
NaturalJoin(x, y) ==
    {t \in [headingSet(x) \cup headingSet(y) -> AlgVals] :
        /\ On(t, headingSet(x)) \in Tuples(x)
        /\ On(t, headingSet(y)) \in Tuples(y)}

\* C14: AND of two relations with list bodies is their natural join: its heading
\* is the union of the headings and its tuples are those whose parts are in r1
\* and in r2, each once; the intersection for equal headings, every pairing for
\* disjoint headings; the same whichever operand drives the loop.
AndIsNaturalJoin ==
    (applied.op = "AND" /\ ~IsComputed(args[1]) /\ ~IsComputed(args[2])) =>
        /\ applied.exc = "none"
        /\ headingSet(applied.rel) = headingSet(args[1]) \cup headingSet(args[2])
        /\ Tuples(applied.rel) = NaturalJoin(args[1], args[2])
        /\ COUNT(applied.rel) = Cardinality(Tuples(applied.rel))
        /\ SameHeading(args[1], args[2]) =>
              Tuples(applied.rel) = Tuples(args[1]) \cap Tuples(args[2])
        /\ headingSet(args[1]) \cap headingSet(args[2]) = {} =>
              COUNT(applied.rel) = COUNT(args[1]) * COUNT(args[2])
        /\ Tuples(ANDdrive(args[1], args[2])) = Tuples(applied.rel)
        /\ Tuples(ANDdrive(args[2], args[1])) = Tuples(applied.rel)
        /\ Tuples(applied.alt) = Tuples(applied.rel)

\* A join on one common attribute of two rows with one row has been computed
AndIsNaturalJoinWitness ==
    /\ applied.op = "AND"
    /\ ~IsComputed(args[1]) /\ ~IsComputed(args[2])
    /\ headingSet(args[1]) = {"a", "b"}
    /\ headingSet(args[2]) = {"b", "k"}
    /\ COUNT(args[1]) = 2
    /\ COUNT(args[2]) = 1
    /\ COUNT(applied.rel) = 1

\* The two calls compared have returned relations that are equal
BothEqual ==
    /\ applied.exc = "none"
    /\ applied.altexc = "none"
    /\ eqRaises(applied.rel, applied.alt) = "none"
    /\ eq(applied.rel, applied.alt)

\* C15, as stated: AND is commutative and associative under relation equality
\* for all relations, with any headings: AND(r1, r2) == AND(r2, r1) and
\* AND(AND(r1, r2), r3) == AND(r1, AND(r2, r3)).
AndLawsAllRelations ==
    applied.op \in {"AND", "ANDAND"} => BothEqual

\* C15, amended: the two laws hold for all relations, with any headings, whose
\* bodies are lists or views; with a body that is a function of one argument a
\* side of a law can raise.
AndCommutesAssociates ==
    (/\ applied.op \in {"AND", "ANDAND"}
     /\ \A i \in 1..3 : ~IsFunction(args[i])) => BothEqual

\* Three relations with different headings, one of them a view, have been
\* joined both ways to a relation that is not empty
AndCommutesAssociatesWitness ==
    /\ applied.op = "ANDAND"
    /\ IsComputed(args[1])
    /\ headingSet(args[1]) = {"a", "b"}
    /\ headingSet(args[2]) = {"b", "k"}
    /\ headingSet(args[3]) = {"a", "k"}
    /\ COUNT(applied.rel) > 0
    /\ applied.rel.body # applied.alt.body

\* OR(r1, r2) == OR(r2, r1), and OR(r, r) == r where the operands are one r
OrLaws ==
    /\ BothEqual
    /\ args[1] = args[2] =>
          /\ eqRaises(applied.rel, args[1]) = "none"
          /\ eq(applied.rel, args[1])

\* MINUS(r, r) has the heading of r and no rows
MinusSelfLaw ==
    /\ applied.exc = "none"
    /\ headingSet(applied.rel) = headingSet(args[1])
    /\ COUNT(applied.rel) = 0

\* C16, as stated: for all relations r, r1, r2 of equal heading, OR(r, r) == r,
\* OR(r1, r2) == OR(r2, r1), and MINUS(r, r) has the heading of r and zero rows.
UnionDifferenceLawsAllRelations ==
    /\ (applied.op = "OR" /\ SameHeading(args[1], args[2])) => OrLaws
    /\ (applied.op = "MINUS" /\ args[1] = args[2]) => MinusSelfLaw

\* C16, amended: the three laws hold for all relations of equal heading whose
\* bodies are lists or views; OR and MINUS raise when both bodies are functions
\* of one argument, and OR when one is.
UnionDifferenceLaws ==
    /\ (/\ applied.op = "OR"
        /\ SameHeading(args[1], args[2])
        /\ ~IsFunction(args[1]) /\ ~IsFunction(args[2])) => OrLaws
    /\ (applied.op = "MINUS" /\ args[1] = args[2] /\ ~IsFunction(args[1])) => MinusSelfLaw

\* The union of a view of two rows with itself has been computed
UnionDifferenceLawsWitness ==
    /\ applied.op = "OR"
    /\ args[1] = args[2]
    /\ IsComputed(args[1]) /\ ~IsFunction(args[1])
    /\ COUNT(applied.rel) = 2

\* ------------------------------------------- more properties of Spec
\* C17: after construction from any list of rows, repeats included, and any
\* inserts and deletes, the list body of r never holds two equal rows; and an
\* insert of rows that are all in r already raises nothing and leaves the body
\* as it was.
SetSemantics ==
    /\ [](Cardinality(Range(r.body)) = Len(r.body))
    /\ [][(res'.op = "insert" /\ res'.present) =>
             (res'.exc = "none" /\ r'.body = r.body)]_vars

\* A batch of two rows that r held already has been inserted
SetSemanticsWitness ==
    /\ res.op = "insert"
    /\ res.present
    /\ Len(r.body) = 3

\* The positions of the rows of rel that hold v on its i-th attribute
PositionsOf(rel, i, v) == {q \in 1..Len(rel.body) : rel.body[q][i] = v}

\* The tuples one tuple can be probed with: over one or both attributes of r,
\* with values r may hold and one it never holds
Probes == UNION {[H -> 1..(MaxVal + 1)] : H \in {{"a"}, {"b"}, {"a", "b"}}}

\* C26: after construction and any inserts, deletes and updates, accepted or
\* undone after a constraint failed, the index of every attribute gives for
\* every value the positions of exactly the rows that hold it; and a scan of r
\* probed with one tuple gives exactly the tuples of the full scan that agree
\* with the probe on the common attributes.
IndexConsistency ==
    /\ \A i \in 1..Len(r.heading) :
          \A v \in DOMAIN r.inv[r.heading[i]] \cup 1..(MaxVal + 1) :
              IdxGet(r.inv, r.heading[i], v) = PositionsOf(r, i, v)
    /\ \A probe \in Probes :
          Range(scanJoin(r, HeadingOfSet(DOMAIN probe), probe))
              = {t \in Tuples(r) : \A x \in DOMAIN probe : t[x] = probe[x]}

\* A delete has been accepted, r holds two rows still, and a probe on a finds
\* the second of them alone
IndexConsistencyWitness ==
    /\ res.op = "delete"
    /\ res.exc = "none"
    /\ Len(r.body) = 2
    /\ scanJoin(r, <<"a">>, [x \in {"a"} |-> r.body[2][1]])
         = <<TupleOf(r.heading, r.body[2])>>

\* ------------------------------------------ properties of SpecHeading
\* A heading with a name twice, a name that is no string, or the empty string
\* as a name
BadHeading(heading) ==
    \/ Cardinality(Range(heading)) # Len(heading)
    \/ \E i \in 1..Len(heading) : ~IsString(heading[i]) \/ heading[i] = ""

\* C18: the constructor and rename raise the heading error whenever the heading
\* to build holds a name twice, a name that is no string, or the empty string,
\* and no relation they return has such a heading.
HeadingValidated ==
    applied.op \in {"construct", "rename"} =>
        /\ BadHeading(applied.heading) => applied.exc = "RelationException"
        /\ applied.exc = "none" => ~BadHeading(applied.rel.heading)

\* ----------------------------------------------- properties of SpecSP
\* The shipments of x in a quantity above q
Above(x, q) == {t \in Tuples(x) : t["QTY"] > q}

\* C19, as stated: over the SP rows of Date's data the restriction to
\* QTY > 300 has exactly 2 rows, S1/P3/400 and S4/P5/400.
RestrictionScenarioTwoRows ==
    (applied.op = "restrict" /\ args[1] = ShipmentsOf(Suppliers) /\ applied.arg = <<300>>) =>
        /\ COUNT(applied.rel) = 2
        /\ {<<t["S#"], t["P#"], t["QTY"]>> : t \in Tuples(applied.rel)}
              = {<<"S1", "P3", 400>>, <<"S4", "P5", 400>>}

\* C19, amended: over the SP rows of Date's data the restriction to QTY > 300
\* has exactly 3 rows, S1/P3/400, S2/P2/400 and S4/P5/400; and over the
\* shipments of any suppliers a restriction to QTY > q has exactly the rows in
\* a quantity above q, each once.
RestrictionScenario ==
    applied.op = "restrict" =>
        /\ Tuples(applied.rel) = Above(args[1], applied.arg[1])
        /\ COUNT(applied.rel) = Cardinality(Above(args[1], applied.arg[1]))
        /\ (args[1] = ShipmentsOf(Suppliers) /\ applied.arg = <<300>>) =>
              /\ COUNT(applied.rel) = 3
              /\ {<<t["S#"], t["P#"], t["QTY"]>> : t \in Tuples(applied.rel)}
                    = {<<"S1", "P3", 400>>, <<"S2", "P2", 400>>, <<"S4", "P5", 400>>}

\* SP has been restricted to QTY > 300
RestrictionScenarioWitness ==
    /\ applied.op = "restrict"
    /\ COUNT(args[1]) = Len(DateSP)
    /\ applied.arg = <<300>>
    /\ applied.exc = "none"

\* The shipments of x strictly more extreme than t on QTY: in a smaller
\* quantity when ascending, in a greater one when descending
Better(x, t, asc) ==
    {u \in Tuples(x) : IF asc THEN u["QTY"] < t["QTY"] ELSE u["QTY"] > t["QTY"]}

\* C20: QUOTA(r, limit, attrs, ascending) holds exactly the rows t of r for
\* which the number of rows of r strictly more extreme than t on attrs is
\* below limit.
QuotaKeepsTop ==
    applied.op = "quota" =>
        /\ applied.exc = "none"
        /\ Tuples(applied.rel) =
              {t \in Tuples(args[1]) :
                  Cardinality(Better(args[1], t, applied.arg[2])) < applied.arg[1]}

\* ------------------------------------------------- properties of SpecMacro
\* C21: every binary list-bodied relation r has TCLOSE(TCLOSE(r)) == TCLOSE(r):
\* both calls return, and what they return is equal
TcloseIdempotent ==
    (applied.op = "TCLOSE" /\ Len(args[1].heading) = 2)
        => /\ applied.exc = "none"
           /\ applied.altexc = "none"
           /\ eq(applied.alt, applied.rel)

\* The pairs a binary relation holds, X before Y
PairsOn(x, X, Y) == {<<t[X], t[Y]>> : t \in Tuples(x)}

RECURSIVE Paths(_, _)
\* The pairs joined by a path of at least one and at most n pairs of E
Paths(E, n) ==
    IF n <= 1 THEN E
    ELSE Paths(E, n - 1)
         \cup {<<pq[1][1], pq[2][2]>> :
                 pq \in {e \in Paths(E, n - 1) \X E : e[1][2] = e[2][1]}}

\* A path that reaches anything at all needs no more pairs than E has
Reachable(E) == Paths(E, Cardinality(E))

\* C28: TCLOSE of a binary list-bodied relation returns, and returns over the
\* heading of r the pairs (a, b) with b reachable from a by a path of pairs of r
TcloseIsClosure ==
    (applied.op = "TCLOSE" /\ Len(args[1].heading) = 2)
        => /\ applied.exc = "none"
           /\ headingSet(applied.rel) = headingSet(args[1])
           /\ PairsOn(applied.rel, args[1].heading[1], args[1].heading[2])
                = Reachable(PairsOn(args[1], args[1].heading[1], args[1].heading[2]))

\* C22: for a list-bodied relation r with at least one row, attributes Hr of r
\* (none and all included) and a name that is no attribute of r,
\* UNGROUP(GROUP(r, Hr, name), name) returns and equals r
GroupRoundTrip ==
    (applied.op = "group" /\ COUNT(args[1]) > 0 /\ applied.arg[2] \notin headingSet(args[1]))
        => (applied.exc = "none" /\ eq(applied.rel, args[1]))

\* Rows of r that agree outside two of three attributes were grouped and
\* ungrouped
GroupRoundTripWitness ==
    /\ applied.op = "group"
    /\ applied.arg = << <<"b", "k">>, "x" >>
    /\ Len(args[1].heading) = 3
    /\ COUNT(args[1]) = 3
    /\ COUNT(project(args[1], <<"a">>)) = 2
    /\ applied.exc = "none"
    /\ eq(applied.rel, args[1])

\* C23: for a list-bodied relation r with at least one row, attributes Hr of r
\* (none and all included) and a name that is no attribute of r,
\* UNWRAP(WRAP(r, Hr, name), name) returns and equals r
WrapRoundTrip ==
    (applied.op = "wrap" /\ COUNT(args[1]) > 0 /\ applied.arg[2] \notin headingSet(args[1]))
        => (applied.exc = "none" /\ eq(applied.rel, args[1]))

\* Two of three attributes of a relation of three rows were wrapped and
\* unwrapped
WrapRoundTripWitness ==
    /\ applied.op = "wrap"
    /\ applied.arg = << <<"a", "b">>, "x" >>
    /\ Len(args[1].heading) = 3
    /\ COUNT(args[1]) = 3
    /\ applied.exc = "none"
    /\ eq(applied.rel, args[1])

\* -------------------------------------------- more properties of SpecDB
\* C24: after construction and after every begin, commit and rollback the four
\* catalog relvars can be read from the database, as computed relations, and a
\* scan of relations gives one tuple for each name of the current namespace
CatalogPresent ==
    last.op \in {"init", "begin", "commit", "rollback"}
        => /\ \A n \in Range(ViewNames) :
                n \in DOMAIN current(db).rel /\ IsComputed(current(db).rel[n])
           /\ {t["relation_name"] : t \in Range(vrelations(db))} = DOMAIN current(db).rel
           /\ Len(vrelations(db)) = Cardinality(DOMAIN current(db).rel)

\* The materialized relvars of the current namespace
MatNames(d) == {n \in DOMAIN current(d).rel : ~IsComputed(current(d).rel[n])}

\* The supplier numbers a row of SP may reference in namespace frame
SuppliersOf(frame) == {t["S#"] : t \in Tuples(frame.rel["S"])}

\* The tuples of SP in the current namespace with the row of the last call
\* added
WithRow(d, row) == Tuples(current(d).rel["SP"]) \cup {TupleOf(RelvarHeading("SP"), row)}

\* C27: the constraints a relvar of the current namespace has bound are bound
\* to that namespace; after a begin, commit or rollback that returned every
\* constraint of every relvar of the current namespace is bound; an insert into
\* SP with its foreign key bound is accepted exactly when every row of SP, the
\* new one included, references a supplier of S in the current namespace; and
\* an insert or delete inside a transaction leaves the committed namespace as
\* it was.
ConstraintsFollowFrame ==
    /\ [](\A n \in MatNames(db) :
            current(db).rel[n].cons # <<>>
                => current(db).rel[n].scope = scopeOf(db.transactionId))
    /\ []((last.op \in {"begin", "commit", "rollback"} /\ last.exc = "none")
            => \A n \in MatNames(db) :
                  current(db).rel[n].cons = Names(current(db).rel[n].cdefs))
    /\ [][(/\ last'.op = "insert"
           /\ last'.name = "SP"
           /\ "fkS" \in Range(current(db).rel["SP"].cons)
           /\ "S" \in DOMAIN current(db).rel)
              => (last'.exc = "none"
                    <=> \A t \in WithRow(db, last'.row) : t["S#"] \in SuppliersOf(current(db)))]_vars
    /\ [][(last'.op \in {"insert", "delete"} /\ db.transactionId > 0)
              => db'.transactions[0] = db.transactions[0]]_vars

\* Inside a transaction a row of SP has been accepted that references a
\* supplier inserted in the transaction, which the committed namespace does
\* not hold
ConstraintsFollowFrameWitness ==
    /\ last.op = "insert"
    /\ last.name = "SP"
    /\ last.exc = "none"
    /\ db.transactionId = 1
    /\ "fkS" \in Range(current(db).rel["SP"].cons)
    /\ "S" \in DOMAIN db.transactions[0].rel
    /\ last.row[1] \notin SuppliersOf(db.transactions[0])

Updated(t, h, w) == [x \in DOMAIN t |-> IF x = h THEN w ELSE t[x]]

\* C30: an update of a list-bodied relation on which no constraint fails
\* returns, keeps the heading, keeps the rows that do not satisfy the
\* restriction and replaces each row that does by the row with the new value
\* on the attribute set and the old values elsewhere
UpdateReplaces ==
    (applied.op = "update" /\ ~IsComputed(args[1])
     /\ applied.exc # "RelationConstraintException")
        => /\ applied.exc = "none"
           /\ headingSet(applied.rel) = headingSet(args[1])
           /\ Tuples(applied.rel)
                = {t \in Tuples(args[1]) : ~Holds(applied.arg[1], t)}
                  \cup {Updated(t, applied.arg[2], applied.arg[3]) :
                          t \in {u \in Tuples(args[1]) : Holds(applied.arg[1], u)}}

\* ------------------------------------------------- properties of SpecAlias
\* C29: after AND, OR, MINUS, REMOVE or rename, returning or raising, each
\* operand has the heading, rows, index and constraints it had; an insert or
\* delete on the relation returned then leaves both operands so, and an insert
\* or delete on an operand leaves the other operand and the relation returned
\* as they were.
OperatorsPure ==
    applied.op # "init" =>
        /\ \A j \in {1, 2} : heap.mutated # j => deref(heap, j) = args[j]
        /\ (applied.exc = "none" /\ heap.mutated # 3) => deref(heap, 3) = applied.rel

\* A row has been inserted into the relation rename returned, which holds a
\* row more than the operand
OperatorsPureWitness ==
    /\ applied.op = "rename"
    /\ applied.exc = "none"
    /\ heap.mutated = 3
    /\ Len(deref(heap, 3).body) = Len(applied.rel.body) + 1
    /\ Len(deref(heap, 1).body) = Len(applied.rel.body)
    /\ Len(applied.rel.body) > 0
====
